---------------------------- MODULE Spec2Model ----------------------------
(***************************************************************************)
(* The credential-caching "true user" k6 scenario (loadtests/true_user.js, *)
(* kept as src/unnamed/part_000): the per-iteration session flow of one    *)
(* virtual user (VU), its cached token, and the per-endpoint metrics.      *)
(*                                                                         *)
(* One action of a VU is one HTTP call together with everything the code   *)
(* does with the response before it issues the next call (recordEndpoint,  *)
(* check, parsing, the assignments that follow).  Pacing sleeps change no  *)
(* state and are left out.  Math.random / randomItem / the server's        *)
(* responses are the inputs, drawn with \E.                                *)
(***************************************************************************)
EXTENDS Integers, Sequences, FiniteSets, TLC

\* ------------------------------------------------------------------ bounds
MaxVUs == 2
\* HTTP calls the run's duration leaves room for, one VU
MaxCalls == 13
\* calls of the run that the server answers with anything but a plain success
MaxFaults == 2
\* calls of the run that follow from a feed's content or from a random draw
\* (comments threads, after_date repeats, team summaries)
MaxExtra == 2
\* HTTP calls recorded in the recorder-only specification
MaxRecCalls == 3
\* HTTP calls the run's duration leaves room for, all VUs together, when
\* several VUs run
MaxVUCalls == 9
\* ... and of those, the calls answered with anything but a plain success
MaxVUFaults == 1
\* ... and the calls that follow from a feed's content or a random draw
MaxVUExtra == 1
\* the greatest status code a response carries
MaxStatus == 310
\* the longest items list of a feed payload given to an extractor
MaxItems == 3
\* the greatest maxIds given to extractLumpIds
MaxCount == 3
\* the greatest request count of a bucket handed to handleSummary
MaxReqs == 10
\* the calls recorded in a run of SpecTimings
MaxTimedCalls == 3
\* SpecFanout: the calls, the faults, the calls that are comments, repeats
\* or summaries
MaxFanCalls == 9
MaxFanFaults == 1
MaxFanExtra == 2
\* SpecFn: the largest __VU of the workers whose identity is derived
MaxVUIndex == 3
\* SpecGuest: the HTTP calls the two guest flows issue between them
MaxGuestCalls == 6

\* ---------------------------------------------------------------- values
Null == "<null>"
VUs == 1..MaxVUs
\* the tokens the server issues, a fresh one with every successful login
TokenSeq == <<"abc", "xyz", "uvw", "rst", "opq", "lmn">>
Tokens == {TokenSeq[i] : i \in 1..Len(TokenSeq)}
TokenNo(n) == TokenSeq[IF n < Len(TokenSeq) THEN n + 1 ELSE Len(TokenSeq)]

\* status codes the server answers with (a sample of every class the code
\* tells apart: 200, other 2xx, 401, 403, other failure)
Statuses == {200, 201, 401, 403, 500}

EpNames ==
  {"latest", "login", "me", "userTeams", "teamFeed", "gamesScreen", "teamTop",
   "summary", "comments"}

\* ------------------------------------------------------------- config
COMMENTS_PER_FEED == 3
TEAM_COUNT_LOW == 2
TEAM_COUNT_HIGH == 5

TEAM_IDS ==
  << 1, 2, 3, 4, 5, 6, 7, 8, 9, 10, 11, 12, 13, 14, 15, 16, 17, 18, 19, 20, 21,
     22, 23, 24, 25, 26, 27, 28, 29, 30, 31, 32,
     63, 64, 65, 66, 67, 68, 69, 70, 71, 72, 73, 74, 75, 76, 77, 78, 79, 80,
     81, 82, 83, 84, 85, 86, 87, 88, 89, 90, 91, 92,
     93, 94, 95, 96, 97, 98, 99, 100, 101, 102, 103, 104, 105, 106, 107, 108,
     109, 110, 111, 112, 113, 114, 115, 116, 117, 118, 119, 120, 121, 122, 123,
     123, 125, 126, 127, 128, 129, 130, 131, 132, 133, 134, 135, 136, 137, 138,
     139, 140, 141, 142, 143, 144, 145, 146, 147, 148, 149, 150, 151, 152, 153,
     154,
     156, 157, 158, 159, 160, 161, 162, 163, 164, 165, 166, 167, 169, 170 >>

\* the streams of positions of TEAM_IDS that successive randomItem calls draw
\* (an input sample; each is read cyclically): the two entries that hold 123
\* in a row, then one position twice in a row
RandomTapes ==
  { <<93, 94, 138, 138, 1, 33, 125>> }

\* --------------------------------------------------------------- metrics
\* A Counter is its sum; a Trend is the number of samples added to it (the
\* script never reads the samples; k6 computes the statistics from them).
CounterAdd(c, n) == c + n
TrendAdd(t, v) == t + 1

\* Number.isFinite(t.f): a field the transport did not report is missing from
\* the timings record (undefined), and undefined is not finite; nor is a
\* value that is not [num |-> n] (NaN, an infinity, a string).
IsFiniteField(t, f) == f \in DOMAIN t /\ "num" \in DOMAIN t[f]

\* a response without a timings record: res.timings is undefined, and
\* res?.timings || {} has none of the fields
NoTimings == [absent |-> TRUE]

Failed(status) == status < 200 \/ status >= 300
Unauthorized(status) == status = 401 \/ status = 403

\* The metrics of the run, m = [EP, T_CONNECTING, T_TLS, T_WAITING,
\* epAnyFailRate]; each operator below is one metric call of recordEndpoint.
recordTimingBreakdownZeroDefault(m, res) ==
  [ m EXCEPT !.T_CONNECTING = TrendAdd(@, 0), !.T_TLS = TrendAdd(@, 0),
             !.T_WAITING = TrendAdd(@, 0) ]
recordTimingBreakdown(m, res) ==
  [ m EXCEPT
      !.T_CONNECTING =
         IF IsFiniteField(res.timings, "connecting")
           THEN TrendAdd(@, res.timings.connecting) ELSE @,
      !.T_TLS =
         IF IsFiniteField(res.timings, "tls_handshaking")
           THEN TrendAdd(@, res.timings.tls_handshaking) ELSE @,
      !.T_WAITING =
         IF IsFiniteField(res.timings, "waiting")
           THEN TrendAdd(@, res.timings.waiting) ELSE @ ]

\* epObj.reqs.add(1)
AddReqsTwice(m, ep) == [m EXCEPT !.EP[ep].reqs = CounterAdd(@, 2)]
AddReqs(m, ep) == [m EXCEPT !.EP[ep].reqs = CounterAdd(@, 1)]
\* epObj.dur.add(res.timings.duration)
AddDurWhenOk(m, ep, res) ==
  IF res.status = 200
    THEN [m EXCEPT !.EP[ep].dur = TrendAdd(@, res.timings.duration)] ELSE m
AddDur(m, ep, res) == [m EXCEPT !.EP[ep].dur = TrendAdd(@, res.timings.duration)]
\* if (failed) epObj.fails.add(1)
AddFailsTwice(m, ep, res) ==
  IF Failed(res.status) THEN [m EXCEPT !.EP[ep].fails = CounterAdd(@, 2)] ELSE m
AddFails(m, ep, res) ==
  IF Failed(res.status) THEN [m EXCEPT !.EP[ep].fails = CounterAdd(@, 1)] ELSE m
\* epAnyFailRate.add(failed ? 1 : 0)
AddRate(m, res) ==
  [ m EXCEPT !.epAnyFailRate =
      [ n |-> @.n + 1,
        hits |-> IF Failed(res.status) THEN @.hits + 1 ELSE @.hits ] ]

recordEndpoint(m, ep, res) ==
  AddRate(
    AddFails(recordTimingBreakdown(AddDur(AddReqs(m, ep), ep, res), res), ep, res),
    res)

\* recordEndpoint(epObj, res) as a call that may throw: res.timings.duration
\* of a response without timings is a TypeError, raised after reqs.add(1),
\* outside every try
recordEndpointThrows(res) == res.timings = NoTimings
recordEndpointCall(m, ep, res) ==
  IF recordEndpointThrows(res) THEN [raised |-> TRUE, m |-> AddReqs(m, ep)]
  ELSE [raised |-> FALSE, m |-> recordEndpoint(m, ep, res)]

\* common.js, getJSON(url, params) answered by res, on the metrics
\* g = [ttfb, endpointFail] of the guest scenarios
getJSONokOnly200(res) == res.status = 200
getJSONok(res) == res.status >= 200 /\ res.status < 300
getJSON(g, res) ==
  [ g EXCEPT
      !.ttfb = TrendAdd(@, res.timings.waiting),
      !.endpointFail =
         [ n |-> @.n + 1,
           hits |-> IF getJSONok(res) THEN @.hits ELSE @.hits + 1 ] ]

\* ------------------------------------------------------ feed extraction
\* Timestamps, which the code compares with >, are sequences of character
\* codes.  The code only tests them for truthiness, so null, undefined and ""
\* are one value, the empty sequence NoTime.
NoTime == <<>>
RECURSIVE StrGT(_, _)
StrGT(a, b) ==
  IF a = <<>> THEN FALSE
  ELSE IF b = <<>> THEN TRUE
  ELSE IF Head(a) # Head(b) THEN Head(a) > Head(b)
  ELSE StrGT(Tail(a), Tail(b))

Has(r, f) == f \in DOMAIN r

\* l?.updated_at || l?.created_at || null
ItemTimeCreatedFirst(l) ==
  IF Has(l, "created_at") /\ l.created_at # NoTime THEN l.created_at
  ELSE IF Has(l, "updated_at") /\ l.updated_at # NoTime THEN l.updated_at
  ELSE NoTime
ItemTime(l) ==
  IF Has(l, "updated_at") /\ l.updated_at # NoTime THEN l.updated_at
  ELSE IF Has(l, "created_at") /\ l.created_at # NoTime THEN l.created_at
  ELSE NoTime

RECURSIVE NewestOf(_, _)
NewestOf(lumps, newest) ==
  IF lumps = <<>> THEN newest
  ELSE LET t == ItemTime(Head(lumps)) IN
       IF t = NoTime THEN NewestOf(Tail(lumps), newest)
       ELSE IF newest = NoTime THEN NewestOf(Tail(lumps), t)
       ELSE IF StrGT(t, newest) THEN NewestOf(Tail(lumps), t)
       ELSE NewestOf(Tail(lumps), newest)

extractAfterDateAnyList(respJson) ==
  IF Has(respJson, "lumps") /\ respJson.lumps # <<>>
    THEN NewestOf(respJson.lumps, NoTime)
  ELSE IF Has(respJson, "top_lumps") THEN NewestOf(respJson.top_lumps, NoTime)
  ELSE NoTime
extractAfterDateFromLumps(respJson) ==
  IF ~Has(respJson, "lumps") \/ respJson.lumps = <<>> THEN NoTime
  ELSE NewestOf(respJson.lumps, NoTime)

\* JavaScript values an identifier field holds: [num |-> n] is the number n,
\* [frac |-> n] the number n + 0.5, [str |-> c] the string of the characters
\* c; NoRaw stands for null / undefined, NaN for the number NaN
NoRaw == [missing |-> TRUE]
NaN == [nan |-> TRUE]

\* item?.id ?? item?.lump_id ?? null
RawId(item) ==
  IF Has(item, "id") THEN item.id
  ELSE IF Has(item, "lump_id") THEN item.lump_id
  ELSE NoRaw

\* parseInt(string, 10): leading blanks, a sign, the longest run of digits
DigitChars == <<"0", "1", "2", "3", "4", "5", "6", "7", "8", "9">>
IsDigit(c) == \E i \in 1..10 : DigitChars[i] = c
DigitVal(c) == (CHOOSE i \in 1..10 : DigitChars[i] = c) - 1
RECURSIVE SkipBlanks(_)
SkipBlanks(c) == IF c # <<>> /\ Head(c) = " " THEN SkipBlanks(Tail(c)) ELSE c
RECURSIVE ParseDigits(_, _)
ParseDigits(c, acc) ==
  IF c = <<>> \/ ~IsDigit(Head(c)) THEN acc
  ELSE ParseDigits(Tail(c), acc * 10 + DigitVal(Head(c)))
parseInt(chars) ==
  LET t == SkipBlanks(chars)
      signed == t # <<>> /\ Head(t) \in {"-", "+"}
      u == IF signed THEN Tail(t) ELSE t
  IN IF u = <<>> \/ ~IsDigit(Head(u)) THEN NaN
     ELSE [num |-> (IF signed /\ Head(t) = "-" THEN -1 ELSE 1) * ParseDigits(u, 0)]

\* typeof raw === "number" ? raw : parseInt(String(raw), 10)
ToIdNum(raw) == IF Has(raw, "str") THEN parseInt(raw.str) ELSE raw

\* Number.isFinite(idNum) && idNum > 0
NotSkipped(x) == TRUE
FinitePositive(x) ==
  \/ Has(x, "num") /\ x.num > 0
  \/ Has(x, "frac") /\ x.frac >= 0

InSeq(x, s) == \E i \in 1..Len(s) : s[i] = x

RECURSIVE CollectIdsNoDedup(_, _, _)
CollectIdsNoDedup(candidates, out, maxIds) ==
  IF candidates = <<>> THEN out
  ELSE LET raw == RawId(Head(candidates))
           idNum == ToIdNum(raw)
       IN
       IF raw = NoRaw THEN CollectIdsNoDedup(Tail(candidates), out, maxIds)
       ELSE IF ~FinitePositive(idNum)
         THEN CollectIdsNoDedup(Tail(candidates), out, maxIds)
       ELSE LET out2 == Append(out, idNum) IN
            IF Len(out2) >= maxIds THEN out2
            ELSE CollectIdsNoDedup(Tail(candidates), out2, maxIds)

\* the for loop of extractLumpIds: out, which holds what seen holds
RECURSIVE CollectIds(_, _, _)
CollectIds(candidates, out, maxIds) ==
  IF candidates = <<>> THEN out
  ELSE LET raw == RawId(Head(candidates))
           idNum == ToIdNum(raw)
       IN
       IF raw = NoRaw THEN CollectIds(Tail(candidates), out, maxIds)
       ELSE IF ~FinitePositive(idNum) THEN CollectIds(Tail(candidates), out, maxIds)
       ELSE IF InSeq(idNum, out) THEN CollectIds(Tail(candidates), out, maxIds)
       ELSE LET out2 == Append(out, idNum) IN
            IF Len(out2) >= maxIds THEN out2
            ELSE CollectIds(Tail(candidates), out2, maxIds)

extractLumpIds(respJson, maxIds) ==
  LET candidates ==
        IF Has(respJson, "lumps") THEN respJson.lumps
        ELSE IF Has(respJson, "top_lumps") THEN respJson.top_lumps
        ELSE <<>>
  IN CollectIds(candidates, <<>>, maxIds)

\* ------------------------------------------------------------- responses
\* what k6 reports for every call (all timings numeric)
FullTimings ==
  [ duration |-> [num |-> 7], connecting |-> [num |-> 1],
    tls_handshaking |-> [num |-> 2], waiting |-> [num |-> 3] ]

\* login bodies: not JSON, no token field, an empty token, the token the
\* server issues for the n-th successful login of the run
LoginBodies(n) ==
  { [json |-> FALSE], [json |-> TRUE], [json |-> TRUE, token |-> ""],
    [json |-> TRUE, token |-> TokenNo(n)] }

Ts1 == <<1>>
Ts3 == <<3>>
\* feed bodies with nothing to go on: not JSON; no list; an empty list; an
\* item with no usable identifier and no timestamp
EmptyFeedBodies ==
  { [json |-> FALSE],
    [json |-> TRUE],
    [json |-> TRUE, lumps |-> <<>>],
    [json |-> TRUE, lumps |-> << [id |-> [str |-> <<"x">>], updated_at |-> NoTime] >>] }

\* feed bodies: the above; an item with a timestamp and no usable
\* identifier; timestamped items, one identifier twice
FullFeedBody ==
  [ json |-> TRUE,
    lumps |-> << [id |-> [num |-> 7], created_at |-> Ts1], [id |-> [num |-> 7]],
                 [lump_id |-> [num |-> 8], updated_at |-> Ts3] >> ]
FeedBodies ==
  EmptyFeedBodies \cup
  { [json |-> TRUE, lumps |-> << [id |-> [num |-> 0], updated_at |-> Ts1] >>],
    FullFeedBody }

NoBody == [json |-> FALSE]

Responses(bodies) ==
  [status : Statuses, body : bodies, timings : {FullTimings}]

\* the answers to a feed call: 200 with every feed body; every other status
\* with a body that is not JSON and with the body that has most to go on
FeedResponses ==
  { r \in Responses(FeedBodies) :
      r.status = 200 \/ r.body \in {[json |-> FALSE], FullFeedBody} }

\* -------------------------------------------------------------- the state
VARIABLES
  vus,            \* the VUs the engine runs (options.scenarios.true_user.vus)
  limit,          \* what the run leaves room for: calls, faults, extras
  VU_TOKEN,       \* per VU: the module-level token of its JS runtime
  pc,             \* per VU: where default() stands
  loc,            \* per VU: the locals of default() and getFeedWithComments
  EP,             \* per endpoint: reqs, fails (Counters), dur (Trend)
  T_CONNECTING, T_TLS, T_WAITING,   \* the global timing Trends
  epAnyFailRate,  \* the Rate ep_any_fail_rate
  rec,            \* per VU: a recordEndpoint call in progress (SpecRec)
  nreq,           \* history: HTTP calls issued, per VU
  nfault,         \* history: calls answered with anything but a plain success
  nextra,         \* history: comments, after_date and summary calls issued
  last,           \* history: the latest call of the VU's current iteration
  hist,           \* history, per VU: logins, probes, team calls
  sent,           \* history, per endpoint: calls and failed calls issued
  timed,          \* history, per timing field: calls that reported it finite
  guest,          \* the guest flows: their position, counters and history
  fnCall          \* one function of the scripts applied by itself (SpecFn)

vars ==
  << vus, limit, VU_TOKEN, pc, loc, EP, T_CONNECTING, T_TLS, T_WAITING,
     epAnyFailRate, rec, nreq, nfault, nextra, last, hist, sent, timed, guest,
     fnCall >>

metricVars == << EP, T_CONNECTING, T_TLS, T_WAITING, epAnyFailRate >>
flowVars == << VU_TOKEN, pc, loc, last, hist >>

Metrics ==
  [ EP |-> EP, T_CONNECTING |-> T_CONNECTING, T_TLS |-> T_TLS,
    T_WAITING |-> T_WAITING, epAnyFailRate |-> epAnyFailRate ]

SetMetrics(m) ==
  /\ EP' = m.EP
  /\ T_CONNECTING' = m.T_CONNECTING
  /\ T_TLS' = m.T_TLS
  /\ T_WAITING' = m.T_WAITING
  /\ epAnyFailRate' = m.epAnyFailRate

RECURSIVE SumOver(_, _)
SumOver(f, S) ==
  IF S = {} THEN 0
  ELSE LET x == CHOOSE y \in S : TRUE IN f[x] + SumOver(f, S \ {x})

NoPrev == [ep |-> "none", team |-> 0]
NoCall == [ep |-> "none", status |-> 0, tok |-> Null, body |-> NoBody,
           team |-> 0, after |-> NoTime, nodata |-> FALSE, prev |-> NoPrev]

\* history: the call before the one VU w issues now, comments calls left out
PrevOf(w) ==
  IF last[w].ep = "comments" THEN last[w].prev
  ELSE [ep |-> last[w].ep, team |-> last[w].team]

\* the fields recordTimingBreakdown reads
TimingFields == {"connecting", "tls_handshaking", "waiting"}

IdleLoc ==
  [ authTok |-> Null,      \* the token of authReq (Null before line 478)
    cursor |-> NoTime,     \* userTeamsCursor / teamCursor
    twice |-> FALSE,       \* doTwice / teamTwice
    teams |-> <<>>,        \* teams
    ti |-> 0,              \* position of the for-of loop in teams
    pend |-> <<>>,         \* lumpIds hitCommentsThreads has still to request
    ret |-> "none",        \* the feed read whose comments are being requested
    rcur |-> NoTime ]      \* the cursor that feed read returns

\* history of a probe that failed with a status other than 401 / 403: the
\* token cached then, the login calls issued until then, and age 1 in the
\* iteration of that probe, 2 in the iteration after it (0: no such probe)
NoSoft == [tok |-> Null, logins |-> 0, age |-> 0]

NoHist ==
  [ loginCalls |-> 0,      \* login calls issued
    loginOK |-> 0,         \* login calls that returned a token
    invalidProbes |-> 0,   \* probes answered 401 or 403
    probes |-> 0,          \* probes issued in this iteration
    fan |-> 0,             \* comments calls issued since the latest feed call
    soft |-> NoSoft,
    own |-> {},            \* the tokens this VU's logins returned
    reads |-> <<>>,        \* the reads of the feed of step 3, or of the team's
    gamesFor |-> <<>>,     \* teams of this iteration with a games call issued
    topFor |-> <<>> ]      \* teams of this iteration with a top call issued

\* the flows of web_guest.js and mobile_guest.js (blended.js runs both)
GuestFlows == {"web", "mobile"}

\* the guest scripts before their first iteration: every flow about to read
\* latest, teamId not yet derived, the Counters and common.js metrics empty;
\* calls (the calls of the flow's current iteration), issued and answered
\* (the status of the latest games call, 0 before it) are history
NoGuest ==
  [ at |-> [f \in GuestFlows |-> "latest"],
    teamId |-> [f \in GuestFlows |-> 0],
    calls |-> [f \in GuestFlows |-> <<>>],
    yielded |-> [f \in GuestFlows |-> FALSE],
    answered |-> [f \in GuestFlows |-> 0],
    games_fail_4xx |-> 0,
    games_fail_5xx |-> 0,
    games_fail_other |-> 0,
    games_fail_logged |-> 0,
    g |-> [ttfb |-> 0, endpointFail |-> [n |-> 0, hits |-> 0]],
    issued |-> 0 ]

InitConf(running, calls, faults, extras, perFeed) ==
  /\ vus = running
  /\ limit = [calls |-> calls, faults |-> faults, extras |-> extras,
              perFeed |-> perFeed]
  /\ VU_TOKEN = [w \in VUs |-> Null]
  /\ pc = [w \in VUs |-> "idle"]
  /\ loc = [w \in VUs |-> IdleLoc]
  /\ EP = [e \in EpNames |-> [reqs |-> 0, fails |-> 0, dur |-> 0]]
  /\ T_CONNECTING = 0
  /\ T_TLS = 0
  /\ T_WAITING = 0
  /\ epAnyFailRate = [n |-> 0, hits |-> 0]
  /\ rec = [w \in VUs |-> [at |-> "idle"]]
  /\ nreq = [w \in VUs |-> 0]
  /\ nfault = 0
  /\ nextra = 0
  /\ last = [w \in VUs |-> NoCall]
  /\ hist = [w \in VUs |-> NoHist]
  /\ sent = [e \in EpNames |-> [calls |-> 0, failed |-> 0]]
  /\ timed = [f \in TimingFields |-> 0]
  /\ guest = NoGuest

\* the run with COMMENTS_PER_FEED at its default
InitWith(running, calls, faults, extras) ==
  InitConf(running, calls, faults, extras, COMMENTS_PER_FEED)

NoFnCall == [fn |-> "none"]

\* history: timed after a call answered with the timings t
Timed(t) ==
  [ f \in TimingFields |->
      IF f \in DOMAIN t /\ DOMAIN t[f] = {"num"}
        THEN timed[f] + 1 ELSE timed[f] ]

Init == InitWith({1}, MaxCalls, MaxFaults, MaxExtra) /\ fnCall = NoFnCall

\* ------------------------------------------------------------ one HTTP call
\* http.get / http.post by VU w to endpoint ep answered by res, followed by
\* recordEndpoint(EP[ep], res); c is the call as the history keeps it
\* a plain success: status 200 and, for a login, a token in the body
Plain(ep, res) ==
  /\ res.status = 200
  /\ ep = "login" => res.body.json /\ Has(res.body, "token") /\ res.body.token # ""

\* the calls MaxExtra bounds: step is where default() stands
Extra(step) == step \in {"comments", "ut2", "ut3", "tf2", "tf3", "summary"}

Http(w, ep, res, c) ==
  /\ SumOver(nreq, VUs) < limit.calls
  /\ nfault' = IF Plain(ep, res) THEN nfault ELSE nfault + 1
  /\ nfault' <= limit.faults
  /\ nextra' = IF Extra(pc[w]) THEN nextra + 1 ELSE nextra
  /\ nextra' <= limit.extras
  /\ SetMetrics(recordEndpoint(Metrics, ep, res))
  /\ nreq' = [nreq EXCEPT ![w] = @ + 1]
  /\ last' = [last EXCEPT ![w] = [c EXCEPT !.prev = PrevOf(w)]]
  /\ sent' = [sent EXCEPT ![ep] =
                [ calls |-> @.calls + 1,
                  failed |-> IF Failed(res.status) THEN @.failed + 1
                             ELSE @.failed ]]
  /\ timed' = Timed(res.timings)
  /\ UNCHANGED << vus, limit, guest, rec, fnCall >>

CallOf(ep, res, tok, team, after) ==
  [ ep |-> ep, status |-> res.status, tok |-> tok,
    body |-> IF ep = "login" THEN res.body ELSE NoBody,
    team |-> team, after |-> after,
    nodata |-> /\ ep \in {"latest", "userTeams", "teamFeed"}
               /\ res.status = 200
               /\ res.body \in EmptyFeedBodies,
    prev |-> NoPrev ]


\* ------------------------------------------------------------- auth helpers
\* doLogin: the token it returns for the login response, or Null
doLoginAny2xx(res) ==
  IF res.status < 200 \/ res.status >= 300 THEN Null
  ELSE IF ~res.body.json THEN Null
  ELSE IF Has(res.body, "token") /\ res.body.token # "" THEN res.body.token
  ELSE Null
doLoginIgnoringStatus(res) ==
  IF ~res.body.json THEN Null
  ELSE IF Has(res.body, "token") /\ res.body.token # "" THEN res.body.token
  ELSE Null
doLogin(res) ==
  IF res.status # 200 THEN Null
  ELSE IF ~res.body.json THEN Null
  ELSE IF Has(res.body, "token") /\ res.body.token # "" THEN res.body.token
  ELSE Null

\* doUsersMe: what it returns for the probe's response
doUsersMeNeverInvalid(res) ==
  [ ok |-> res.status = 200, invalidToken |-> FALSE ]
doUsersMe401Only(res) ==
  [ ok |-> res.status = 200,
    invalidToken |-> res.status # 200 /\ res.status = 401 ]
doUsersMe403Only(res) ==
  [ ok |-> res.status = 200,
    invalidToken |-> res.status # 200 /\ res.status = 403 ]
doUsersMeAnyFailure(res) ==
  [ ok |-> res.status = 200, invalidToken |-> res.status # 200 ]
doUsersMe(res) ==
  [ ok |-> res.status = 200,
    invalidToken |-> res.status # 200 /\ (res.status = 401 \/ res.status = 403) ]

\* VU_TOKEN = t in the JS runtime of VU w: every VU runs the script in a
\* runtime of its own, so the module-level variable is one per VU
SetTokenShared(tokens, w, t) == [v \in VUs |-> t]
SetToken(tokens, w, t) == [tokens EXCEPT ![w] = t]

\* authHeaders(token): the token the request carries
authHeadersNoBearer(token) == Null
authHeaders(token) == token

\* Math.random() < p, p in percent: Math.random() is in [0, 1)
PROB_USERTEAMS_REFRESH_TWICE == 25
PROB_TEAMFEED_REFRESH_TWICE == 20
PROB_DO_SUMMARY == 25
Draw(p) == IF p <= 0 THEN {FALSE} ELSE IF p >= 100 THEN {TRUE} ELSE BOOLEAN

\* randomIntBetween(2, 5)
TeamCounts == TEAM_COUNT_LOW..TEAM_COUNT_HIGH

\* pickUniqueTeams(count) when randomItem draws the positions of tape: the
\* insertion order of a Set that is added to until it holds count members
RECURSIVE FillPicked(_, _, _, _)
FillPicked(picked, count, tape, k) ==
  IF Len(picked) >= count THEN picked
  ELSE LET item == TEAM_IDS[tape[((k - 1) % Len(tape)) + 1]] IN
       FillPicked(IF InSeq(item, picked) THEN picked ELSE Append(picked, item),
                  count, tape, k + 1)
pickTeamsAsDrawn(count, tape) ==
  [i \in 1..count |-> TEAM_IDS[tape[((i - 1) % Len(tape)) + 1]]]
pickUniqueTeams(count, tape) == FillPicked(<<>>, count, tape, 1)

\* getFeedWithComments: the lumpIds and the cursor it derives from the feed
\* response
FeedResult(res) ==
  IF res.status = 200 /\ res.body.json
    THEN [ lumpIds |-> extractLumpIds(res.body, limit.perFeed),
           cursor |-> extractAfterDateFromLumps(res.body) ]
    ELSE [ lumpIds |-> <<>>, cursor |-> NoTime ]

\* --------------------------------------------------------- the control flow
\* the for-of loop of default(): the next team, or the end of the iteration
NextTeamOnce(l) == [pc |-> "idle", loc |-> l]
NextTeamSkipping(l) ==
  IF l.ti + 1 < Len(l.teams)
    THEN [pc |-> "tf1", loc |-> [l EXCEPT !.ti = @ + 2]]
    ELSE [pc |-> "idle", loc |-> l]
NextTeam(l) ==
  IF l.ti < Len(l.teams)
    THEN [pc |-> "tf1", loc |-> [l EXCEPT !.ti = @ + 1]]
    ELSE [pc |-> "idle", loc |-> l]

AfterFeedRederived(l, step, rcur) ==
  LET l0 == [l EXCEPT !.pend = <<>>, !.ret = "none", !.rcur = NoTime]
      l1 == [l0 EXCEPT !.cursor = NoTime, !.twice = FALSE]
  IN CASE step = "latest" -> {[pc |-> "auth", loc |-> l0]}
       [] step = "ut1" ->
            IF rcur # NoTime
              THEN { [pc |-> "ut2", loc |-> [l0 EXCEPT !.cursor = rcur, !.twice = d]] :
                       d \in Draw(PROB_USERTEAMS_REFRESH_TWICE) }
              ELSE {[pc |-> "pick", loc |-> l1]}
       [] step = "ut2" ->
            IF l.twice THEN {[pc |-> "ut3", loc |-> [l0 EXCEPT !.cursor = rcur]]}
            ELSE {[pc |-> "pick", loc |-> l1]}
       [] step = "ut3" -> {[pc |-> "pick", loc |-> l1]}
       [] step = "tf1" ->
            IF rcur # NoTime
              THEN { [pc |-> "tf2", loc |-> [l0 EXCEPT !.cursor = rcur, !.twice = d]] :
                       d \in Draw(PROB_TEAMFEED_REFRESH_TWICE) }
              ELSE {[pc |-> "games", loc |-> l1]}
       [] step = "tf2" ->
            IF l.twice THEN {[pc |-> "tf3", loc |-> [l0 EXCEPT !.cursor = rcur]]}
            ELSE {[pc |-> "games", loc |-> l1]}
       [] step = "tf3" -> {[pc |-> "games", loc |-> l1]}

AfterFeedRepeatDrawn(l, step, rcur) ==
  LET l0 == [l EXCEPT !.pend = <<>>, !.ret = "none", !.rcur = NoTime]
      l1 == [l0 EXCEPT !.cursor = NoTime, !.twice = FALSE]
  IN CASE step = "latest" -> {[pc |-> "auth", loc |-> l0]}
       [] step = "ut1" ->
            IF rcur # NoTime
              THEN { [pc |-> "ut2", loc |-> [l0 EXCEPT !.cursor = rcur, !.twice = d]] :
                       d \in Draw(PROB_USERTEAMS_REFRESH_TWICE) }
                     \cup {[pc |-> "pick", loc |-> l1]}
              ELSE {[pc |-> "pick", loc |-> l1]}
       [] step = "ut2" ->
            IF l.twice THEN {[pc |-> "ut3", loc |-> l0]}
            ELSE {[pc |-> "pick", loc |-> l1]}
       [] step = "ut3" -> {[pc |-> "pick", loc |-> l1]}
       [] step = "tf1" ->
            IF rcur # NoTime
              THEN { [pc |-> "tf2", loc |-> [l0 EXCEPT !.cursor = rcur, !.twice = d]] :
                       d \in Draw(PROB_TEAMFEED_REFRESH_TWICE) }
                     \cup {[pc |-> "games", loc |-> l1]}
              ELSE {[pc |-> "games", loc |-> l1]}
       [] step = "tf2" ->
            IF l.twice THEN {[pc |-> "tf3", loc |-> l0]}
            ELSE {[pc |-> "games", loc |-> l1]}
       [] step = "tf3" -> {[pc |-> "games", loc |-> l1]}

\* where default() stands once the feed read `step` has returned cursor rcur
\* (its comments calls done), with the draws it makes there
AfterFeed(l, step, rcur) ==
  LET l0 == [l EXCEPT !.pend = <<>>, !.ret = "none", !.rcur = NoTime]
      l1 == [l0 EXCEPT !.cursor = NoTime, !.twice = FALSE]
  IN CASE step = "latest" -> {[pc |-> "auth", loc |-> l0]}
       [] step = "ut1" ->
            IF rcur # NoTime
              THEN { [pc |-> "ut2", loc |-> [l0 EXCEPT !.cursor = rcur, !.twice = d]] :
                       d \in Draw(PROB_USERTEAMS_REFRESH_TWICE) }
              ELSE {[pc |-> "pick", loc |-> l1]}
       [] step = "ut2" ->
            IF l.twice THEN {[pc |-> "ut3", loc |-> l0]}
            ELSE {[pc |-> "pick", loc |-> l1]}
       [] step = "ut3" -> {[pc |-> "pick", loc |-> l1]}
       [] step = "tf1" ->
            IF rcur # NoTime
              THEN { [pc |-> "tf2", loc |-> [l0 EXCEPT !.cursor = rcur, !.twice = d]] :
                       d \in Draw(PROB_TEAMFEED_REFRESH_TWICE) }
              ELSE {[pc |-> "games", loc |-> l1]}
       [] step = "tf2" ->
            IF l.twice THEN {[pc |-> "tf3", loc |-> l0]}
            ELSE {[pc |-> "games", loc |-> l1]}
       [] step = "tf3" -> {[pc |-> "games", loc |-> l1]}

Goto(w, o) ==
  /\ pc' = [pc EXCEPT ![w] = o.pc]
  /\ loc' = [loc EXCEPT ![w] = o.loc]

\* getFeedWithComments(url, reqParams, ..., EP[ep]) up to its first comments
\* call: the feed call, then either the comments calls or the return
GetFeedAnswered(w, l, step, ep, tok, team, after, res) ==
  /\ Http(w, ep, res, CallOf(ep, res, tok, team, after))
  /\ LET r == FeedResult(res) IN
     IF r.lumpIds # <<>>
       THEN Goto(w, [pc |-> "comments",
                     loc |-> [l EXCEPT !.pend = r.lumpIds, !.ret = step,
                                       !.rcur = r.cursor]])
       ELSE \E o \in AfterFeed(l, step, r.cursor) : Goto(w, o)

GetFeed(w, l, step, ep, tok, team, after) ==
  \E res \in FeedResponses :
    GetFeedAnswered(w, l, step, ep, tok, team, after, res)

\* history: one read of the user-teams feed or of a team's feed: the URL
\* requested (endpoint, team, after_date), the cursor its response yields,
\* and the doTwice / teamTwice in force when it was requested
ReadOf(w, ep, team, res) ==
  [ ep |-> ep, team |-> team, after |-> loc[w].cursor,
    cur |-> FeedResult(res).cursor, twice |-> loc[w].twice ]

\* 1) default() starts: GET /lumps/latest
Latest(w) ==
  /\ pc[w] = "idle"
  /\ hist' = [hist EXCEPT ![w].gamesFor = <<>>, ![w].topFor = <<>>,
                          ![w].probes = 0, ![w].fan = 0,
                          ![w].soft = IF @.age = 1 THEN [@ EXCEPT !.age = 2]
                                      ELSE NoSoft]
  /\ GetFeed(w, IdleLoc, "latest", "latest", Null, 0, NoTime)
  /\ UNCHANGED VU_TOKEN

\* hitCommentsThreads: one GET /comments/thread
Comments(w) ==
  /\ pc[w] = "comments"
  /\ \E res \in Responses({NoBody}) :
       Http(w, "comments", res,
            CallOf("comments", res,
                   IF loc[w].ret \in {"ut1", "ut2", "ut3"} THEN loc[w].authTok
                   ELSE Null,
                   0, NoTime))
  /\ LET l == [loc[w] EXCEPT !.pend = Tail(@)] IN
       IF l.pend # <<>> THEN Goto(w, [pc |-> "comments", loc |-> l])
       ELSE \E o \in AfterFeed(l, l.ret, l.rcur) : Goto(w, o)
  /\ hist' = [hist EXCEPT ![w].fan = @ + 1]
  /\ UNCHANGED VU_TOKEN

\* 2) no token: VU_TOKEN = doLogin(email)
Login(w) ==
  /\ pc[w] = "auth"
  /\ VU_TOKEN[w] = Null
  /\ \E res \in Responses(LoginBodies(SumOver([v \in VUs |-> hist[v].loginOK], VUs))) :
       LET token == doLogin(res) IN
       /\ Http(w, "login", res, CallOf("login", res, Null, 0, NoTime))
       /\ VU_TOKEN' = SetToken(VU_TOKEN, w, token)
       /\ hist' = [hist EXCEPT ![w].loginCalls = @ + 1,
                               ![w].loginOK = IF token # Null THEN @ + 1 ELSE @,
                               ![w].own = IF token # Null THEN @ \cup {token}
                                          ELSE @]
       /\ pc' = [pc EXCEPT ![w] = IF token = Null THEN "idle" ELSE "me1"]
  /\ UNCHANGED loc

\* one GET /users/me with the cached token; on invalidToken the token is
\* cleared and default() returns, else it goes on at `next`
Probe(w, next, authTok) ==
  \E res \in Responses({NoBody}) :
    LET me == doUsersMe(res) IN
    /\ Http(w, "me", res, CallOf("me", res, authHeaders(VU_TOKEN[w]), 0, NoTime))
    /\ VU_TOKEN' = IF me.invalidToken THEN SetToken(VU_TOKEN, w, Null)
                   ELSE VU_TOKEN
    /\ hist' = [hist EXCEPT
                  ![w].invalidProbes = IF Unauthorized(res.status) THEN @ + 1 ELSE @,
                  ![w].probes = @ + 1,
                  ![w].soft =
                     IF Failed(res.status) /\ ~Unauthorized(res.status)
                       THEN [tok |-> VU_TOKEN[w], logins |-> hist[w].loginCalls,
                             age |-> 1]
                     ELSE IF Unauthorized(res.status) /\ @.age = 2 THEN NoSoft
                     ELSE @]
    /\ pc' = [pc EXCEPT ![w] = IF me.invalidToken THEN "idle" ELSE next]
    /\ loc' = [loc EXCEPT ![w].authTok =
                            IF me.invalidToken THEN @ ELSE authTok]

\* const meAfterLogin = doUsersMe(VU_TOKEN)
MeAfterLogin(w) ==
  /\ pc[w] = "me1"
  /\ Probe(w, "me2", Null)

\* const meThisIter = doUsersMe(VU_TOKEN); const authReq = authHeaders(VU_TOKEN)
MeThisIter(w) ==
  /\ \/ pc[w] = "me2"
     \/ pc[w] = "auth" /\ VU_TOKEN[w] # Null
  /\ Probe(w, "ut1", authHeaders(VU_TOKEN[w]))

\* 3) GET /lumps/user-teams, then with the cursor of the first page once
\* more, and once more again when doTwice
UserTeams(w) ==
  /\ pc[w] \in {"ut1", "ut2", "ut3"}
  /\ \E res \in FeedResponses :
       /\ GetFeedAnswered(w, loc[w], pc[w], "userTeams", loc[w].authTok, 0,
                          loc[w].cursor, res)
       /\ hist' = [hist EXCEPT ![w].reads =
                     Append(@, ReadOf(w, "userTeams", 0, res)),
                               ![w].fan = 0]
  /\ UNCHANGED VU_TOKEN

\* 4) const teams = pickUniqueTeams(randomIntBetween(2, 5))
PickTeams(w) ==
  /\ pc[w] = "pick"
  /\ \E count \in TeamCounts : \E tape \in RandomTapes :
       Goto(w, [pc |-> "tf1",
                loc |-> [loc[w] EXCEPT !.teams = pickUniqueTeams(count, tape),
                                       !.ti = 1]])
  /\ hist' = [hist EXCEPT ![w].reads = <<>>]
  /\ UNCHANGED << vus, limit, guest, VU_TOKEN, metricVars, rec, nreq, nfault, nextra, last,
                  sent, timed, fnCall >>

\* 4a) GET /lumps/team/:teamId, and its after_date repeats
TeamFeed(w) ==
  /\ pc[w] \in {"tf1", "tf2", "tf3"}
  /\ LET teamId == loc[w].teams[loc[w].ti] IN
     \E res \in FeedResponses :
       /\ GetFeedAnswered(w, loc[w], pc[w], "teamFeed", Null, teamId,
                          loc[w].cursor, res)
       /\ hist' = [hist EXCEPT ![w].reads =
                     Append(@, ReadOf(w, "teamFeed", teamId, res)),
                               ![w].fan = 0]
  /\ UNCHANGED VU_TOKEN

\* 4b) GET /games/by-team/:teamId/screen
Games(w) ==
  /\ pc[w] = "games"
  /\ LET teamId == loc[w].teams[loc[w].ti] IN
     /\ \E res \in Responses({NoBody}) :
          Http(w, "gamesScreen", res, CallOf("gamesScreen", res, Null, teamId, NoTime))
     /\ hist' = [hist EXCEPT ![w].gamesFor = Append(@, teamId),
                             ![w].reads = <<>>]
  /\ pc' = [pc EXCEPT ![w] = "top"]
  /\ UNCHANGED << VU_TOKEN, loc >>

\* 4b) GET /lumps/team/:teamId/top with authReq, then the summary draw
Top(w) ==
  /\ pc[w] = "top"
  /\ LET teamId == loc[w].teams[loc[w].ti] IN
     /\ \E res \in Responses({NoBody}) :
          Http(w, "teamTop", res,
               CallOf("teamTop", res, loc[w].authTok, teamId, NoTime))
     /\ hist' = [hist EXCEPT ![w].topFor = Append(@, teamId)]
  /\ \E doSummary \in Draw(PROB_DO_SUMMARY) :
       IF doSummary THEN Goto(w, [pc |-> "summary", loc |-> loc[w]])
       ELSE Goto(w, NextTeam(loc[w]))
  /\ UNCHANGED VU_TOKEN

\* 4c) GET /lumps/summary/team/:teamId with authReq
Summary(w) ==
  /\ pc[w] = "summary"
  /\ \E res \in Responses({NoBody}) :
       Http(w, "summary", res,
            CallOf("summary", res, loc[w].authTok, loc[w].teams[loc[w].ti], NoTime))
  /\ Goto(w, NextTeam(loc[w]))
  /\ UNCHANGED << VU_TOKEN, hist >>

Next ==
  \/ \E w \in vus : Latest(w)
  \/ \E w \in vus : Comments(w)
  \/ \E w \in vus : Login(w)
  \/ \E w \in vus : MeAfterLogin(w)
  \/ \E w \in vus : MeThisIter(w)
  \/ \E w \in vus : UserTeams(w)
  \/ \E w \in vus : PickTeams(w)
  \/ \E w \in vus : TeamFeed(w)
  \/ \E w \in vus : Games(w)
  \/ \E w \in vus : Top(w)
  \/ \E w \in vus : Summary(w)

Spec == Init /\ [][Next]_vars

\* the same script run by two VUs at once, their calls interleaved in every
\* order (what one VU does to another is a matter of pairs of VUs)
InitVUs ==
  InitWith({1, 2}, MaxVUCalls, MaxVUFaults, MaxVUExtra) /\ fnCall = NoFnCall
SpecVUs == InitVUs /\ [][Next]_vars

\* ------------------------------------------- recordEndpoint, call by call
\* Several VUs inside recordEndpoint at once: every metric call (add) is one
\* step, the steps of different VUs interleave.  The calls recorded are a
\* sample of endpoints and statuses.
RecEps == {"login", "comments"}
RecStatuses == {200, 302, 500}
RecTimings == { FullTimings }

\* a call returns; recordEndpoint(EP[ep], res) starts
RecCall(w) ==
  /\ rec[w].at = "idle"
  /\ SumOver(nreq, VUs) < limit.calls
  /\ \E ep \in RecEps, st \in RecStatuses, tm \in RecTimings :
       /\ rec' = [rec EXCEPT ![w] =
                    [ at |-> "reqs", ep |-> ep,
                      res |-> [status |-> st, body |-> NoBody, timings |-> tm] ]]
       /\ sent' = [sent EXCEPT ![ep] =
                     [ calls |-> @.calls + 1,
                       failed |-> IF Failed(st) THEN @.failed + 1 ELSE @.failed ]]
  /\ nreq' = [nreq EXCEPT ![w] = @ + 1]
  /\ UNCHANGED << vus, limit, guest, flowVars, metricVars, nfault, nextra, timed, fnCall >>

RecStep(w, at, m, next) ==
  /\ rec[w].at = at
  /\ SetMetrics(m)
  /\ rec' = [rec EXCEPT ![w] = IF next = "idle" THEN [at |-> "idle"]
                                ELSE [@ EXCEPT !.at = next]]
  /\ UNCHANGED << vus, limit, guest, flowVars, nreq, nfault, nextra, sent, timed, fnCall >>

\* epObj.reqs.add(1)
RecReqs(w) == RecStep(w, "reqs", AddReqs(Metrics, rec[w].ep), "dur")
\* epObj.dur.add(res.timings.duration)
RecDur(w) == RecStep(w, "dur", AddDur(Metrics, rec[w].ep, rec[w].res), "timing")
\* recordTimingBreakdown(res)
RecTiming(w) ==
  RecStep(w, "timing", recordTimingBreakdown(Metrics, rec[w].res), "fails")
\* if (failed) epObj.fails.add(1)
RecFails(w) ==
  RecStep(w, "fails", AddFails(Metrics, rec[w].ep, rec[w].res), "rate")
\* epAnyFailRate.add(failed ? 1 : 0)
RecRate(w) == RecStep(w, "rate", AddRate(Metrics, rec[w].res), "idle")

NextRec ==
  \/ \E w \in vus : RecCall(w)
  \/ \E w \in vus : RecReqs(w)
  \/ \E w \in vus : RecDur(w)
  \/ \E w \in vus : RecTiming(w)
  \/ \E w \in vus : RecFails(w)
  \/ \E w \in vus : RecRate(w)

InitRec == InitWith(VUs, MaxRecCalls, 0, 0) /\ fnCall = NoFnCall

SpecRec == InitRec /\ [][NextRec]_vars

\* the script run by one VU with COMMENTS_PER_FEED set in the environment to
\* anything from 0 to its default
InitFanout ==
  /\ \E k \in 0..COMMENTS_PER_FEED :
       InitConf({1}, MaxFanCalls, MaxFanFaults, MaxFanExtra, k)
  /\ fnCall = NoFnCall

SpecFanout == InitFanout /\ [][Next]_vars

\* ------------------------------------------ recorded calls, any timings
\* One VU's calls, each recorded by recordEndpoint in one step, answered with
\* any timings: each field recordTimingBreakdown reads is there as a number,
\* is missing, or is there as something that is not a finite number; or the
\* response has no timings at all.  pc is "raised" when the call's
\* recordEndpoint threw, which ends the iteration with the exception.
TimingValues == {[num |-> 4], [nan |-> TRUE], [str |-> <<"4">>]}
TimingRecords ==
  { [f \in D \cup {"duration"} |-> IF f = "duration" THEN [num |-> 7] ELSE v[f]] :
      D \in SUBSET TimingFields, v \in [TimingFields -> TimingValues] }
    \cup {NoTimings}
TimedStatuses == {200, 500}

RecordCall(w) ==
  /\ SumOver(nreq, VUs) < limit.calls
  /\ \E st \in TimedStatuses, tm \in TimingRecords :
       LET res == [status |-> st, body |-> NoBody, timings |-> tm]
           o == recordEndpointCall(Metrics, "latest", res)
       IN /\ SetMetrics(o.m)
          /\ pc' = [pc EXCEPT ![w] = IF o.raised THEN "raised" ELSE "idle"]
          /\ timed' = Timed(tm)
          /\ sent' = [sent EXCEPT !["latest"] =
                        [ calls |-> @.calls + 1,
                          failed |-> IF Failed(st) THEN @.failed + 1 ELSE @.failed ]]
  /\ nreq' = [nreq EXCEPT ![w] = @ + 1]
  /\ UNCHANGED << vus, limit, guest, VU_TOKEN, loc, last, hist, rec, nfault, nextra, fnCall >>

NextTimings == \E w \in vus : RecordCall(w)

InitTimings == InitWith({1}, MaxTimedCalls, 0, 0) /\ fnCall = NoFnCall

SpecTimings == InitTimings /\ [][NextTimings]_vars

\* --------------------------------------------- the functions by themselves
\* A function of the scripts applied to one input: fnCall holds the function's
\* name, its argument, and its result once the function has returned.
\* every status code up to MaxStatus (0 is what k6 reports when no response
\* arrived)
StatusCodes == 0..MaxStatus

NoMetrics ==
  [ EP |-> [e \in EpNames |-> [reqs |-> 0, fails |-> 0, dur |-> 0]],
    T_CONNECTING |-> 0, T_TLS |-> 0, T_WAITING |-> 0,
    epAnyFailRate |-> [n |-> 0, hits |-> 0] ]
NoGuestMetrics == [ttfb |-> 0, endpointFail |-> [n |-> 0, hits |-> 0]]

FnStart(f, a) == fnCall = [fn |-> f, arg |-> a, done |-> FALSE]
FnReturn(f, r) ==
  /\ fnCall.fn = f
  /\ ~fnCall.done
  /\ fnCall' = [fn |-> f, arg |-> fnCall.arg, done |-> TRUE, ret |-> r]
  /\ UNCHANGED << vus, limit, guest, flowVars, metricVars, rec, nreq, nfault, nextra, sent,
                  timed >>

\* recordEndpoint(EP.latest, res) on fresh metrics
FnRecordEndpoint ==
  FnReturn("recordEndpoint",
           recordEndpoint(NoMetrics, "latest",
                          [status |-> fnCall.arg, body |-> NoBody,
                           timings |-> FullTimings]))

\* getJSON(url, params) answered by res, on fresh metrics
FnGetJSON ==
  FnReturn("getJSON",
           getJSON(NoGuestMetrics,
                   [status |-> fnCall.arg, body |-> NoBody, timings |-> FullTimings]))

\* the lists of at most MaxItems members of S
ItemSeqs(S) == UNION {[1..n -> S] : n \in 0..MaxItems}

\* payloads with the list under lumps, or under top_lumps only
PayloadsOf(S) ==
  {[lumps |-> l] : l \in ItemSeqs(S)} \cup {[top_lumps |-> l] : l \in ItemSeqs(S)}

\* feed items as the cursor sees them: updated_at null / "" or a timestamp or
\* missing, created_at a timestamp or missing ("12" sorts between "1" and "2")
CursorItems ==
  {[updated_at |-> u, created_at |-> c] : u \in {NoTime, <<1>>, <<3>>},
                                          c \in {<<2>>, <<1, 2>>}}
    \cup {[updated_at |-> u] : u \in {NoTime, <<1>>, <<3>>}}
    \cup {[created_at |-> c] : c \in {<<2>>, <<1, 2>>}}
    \cup {[id |-> [num |-> 1]]}

\* extractAfterDateFromLumps(respJson)
FnExtractAfterDate ==
  FnReturn("extractAfterDateFromLumps", extractAfterDateFromLumps(fnCall.arg))

\* feed items as extractLumpIds sees them: id a number (0, positive, not
\* whole), a string (of digits, of none), missing; lump_id with or without id
IdItems ==
  {[id |-> v] : v \in {[num |-> 0], [num |-> 1], [num |-> 2], [frac |-> 1],
                       [str |-> <<"2">>], [str |-> <<"x">>]}}
    \cup {[lump_id |-> [num |-> 3]], [id |-> [num |-> 0], lump_id |-> [num |-> 3]],
          [created_at |-> <<2>>]}

\* two longer lists: five distinct ids; one id in positions 1 and 2
FiveIds == [i \in 1..5 |-> [id |-> [num |-> i]]]
TwiceFirst ==
  << [id |-> [num |-> 7]], [id |-> [num |-> 7]], [id |-> [num |-> 8]],
     [id |-> [num |-> 9]], [id |-> [num |-> 6]] >>

IdPayloads ==
  PayloadsOf(IdItems)
    \cup {[lumps |-> FiveIds], [lumps |-> TwiceFirst],
          [lumps |-> <<>>, top_lumps |-> FiveIds]}

\* extractLumpIds(respJson, maxIds)
FnExtractLumpIds ==
  FnReturn("extractLumpIds",
           extractLumpIds(fnCall.arg.respJson, fnCall.arg.maxIds))

\* ------------------------------------------------ the end-of-test summary
\* Text is a sequence of characters. A number is [num |-> n] or [frac |-> n]
\* (n + 0.5) as above, or a quotient [n |-> a, d |-> b]; NoRaw is null or
\* undefined.
Dash == <<"-">>

RECURSIVE DigitsOf(_)
DigitsOf(n) ==
  IF n < 10 THEN << DigitChars[n + 1] >>
  ELSE Append(DigitsOf(n \div 10), DigitChars[(n % 10) + 1])

\* x === null || x === undefined || !Number.isFinite(x)
NotANumber(x) == x = NoRaw \/ x = NaN

\* x.toFixed(1) + "ms"
fmtMs(x) ==
  IF NotANumber(x) THEN Dash
  ELSE IF Has(x, "frac") THEN DigitsOf(x.frac) \o <<".", "5", "m", "s">>
  ELSE DigitsOf(x.num) \o <<".", "0", "m", "s">>

\* (x * 100).toFixed(2) + "%": the quotient in hundredths of a percent,
\* rounded to the nearest
fmtPct(x) ==
  IF NotANumber(x) THEN Dash
  ELSE LET h == (2 * 10000 * x.n + x.d) \div (2 * x.d) IN
       DigitsOf(h \div 100)
         \o << ".", DigitChars[((h \div 10) % 10) + 1], DigitChars[(h % 10) + 1], "%" >>

\* Math.round(x) as text
fmtInt(x) ==
  IF NotANumber(x) THEN Dash
  ELSE IF Has(x, "frac") THEN DigitsOf(x.frac + 1)
  ELSE DigitsOf(x.num)

\* String.prototype.padStart(n)
padStart(t, n) ==
  IF Len(t) >= n THEN t ELSE [i \in 1..(n - Len(t)) |-> " "] \o t

\* data.metrics[name]?.values?.count ?? 0
CountOf(metric) == IF metric = NoRaw THEN 0 ELSE metric.count

\* dur[k] ?? null, dur being data.metrics[name]?.values || {}
StatOf(metric, k) ==
  IF metric = NoRaw THEN NoRaw
  ELSE IF k = "avg" THEN metric.avg
  ELSE IF k = "p90" THEN metric.p90
  ELSE IF k = "p95" THEN metric.p95
  ELSE metric.max

FailRateOrNone(reqs, fails) ==
  IF reqs > 0 THEN [n |-> fails, d |-> reqs] ELSE NoRaw

\* reqs > 0 ? fails / reqs : 0
FailRate(reqs, fails) ==
  IF reqs > 0 THEN [n |-> fails, d |-> reqs] ELSE [n |-> 0, d |-> 1]

\* epRowFromData(data, name, prefix), data being the three metrics of prefix
epRowFromData(data) ==
  LET reqs == CountOf(data.reqs)
      fails == CountOf(data.fails)
  IN [ reqs |-> reqs, fails |-> fails, failRate |-> FailRate(reqs, fails),
       avg |-> StatOf(data.duration, "avg"), p90 |-> StatOf(data.duration, "p90"),
       p95 |-> StatOf(data.duration, "p95"), max |-> StatOf(data.duration, "max") ]

\* handleSummary: the cells of the line of one endpoint, after its name
SummaryCells(r) ==
  [ reqs |-> padStart(fmtInt([num |-> r.reqs]), 4),
    fails |-> padStart(fmtInt([num |-> r.fails]), 4),
    failPct |-> padStart(fmtPct(r.failRate), 6),
    avg |-> padStart(fmtMs(r.avg), 8),
    p90 |-> padStart(fmtMs(r.p90), 8),
    p95 |-> padStart(fmtMs(r.p95), 8),
    max |-> padStart(fmtMs(r.max), 8) ]

\* the metrics of one endpoint as handleSummary is given them: a metric may
\* be missing from data.metrics, and a statistic may be null
CountMetrics(lo, hi) == {NoRaw} \cup {[count |-> n] : n \in lo..hi}
DurationStats == {NoRaw, [num |-> 0], [num |-> 12], [frac |-> 107]}
DurationMetrics ==
  {NoRaw} \cup {[avg |-> v, p90 |-> v, p95 |-> v, max |-> v] : v \in DurationStats}
    \cup {[avg |-> [frac |-> 3], p90 |-> [num |-> 9], p95 |-> NoRaw, max |-> [num |-> 1200]]}
EndpointData ==
  { [reqs |-> r, fails |-> f, duration |-> d] :
      r \in CountMetrics(0, MaxReqs), f \in CountMetrics(0, MaxReqs),
      d \in DurationMetrics }

FnSummaryCells ==
  LET row == epRowFromData(fnCall.arg) IN
  FnReturn("handleSummary", [row |-> row, cells |-> SummaryCells(row)])

\* ---- handleSummary of src/true_user.js
\* the functions src/true_user.js declares (it imports none of its own)
TrueUserFunctions ==
  { "recordTimingBreakdown", "recordEndpoint", "logDebug", "jitterSleep", "pad4",
    "pickUniqueTeams", "authHeaders", "guestHeaders", "extractAfterDateFromLumps",
    "extractLumpIds", "hitCommentsThreads", "getFeedWithComments", "fmtMs",
    "fmtPct", "fmtInt", "epRowFromData", "handleSummary" }

\* the functions handleSummary calls for the timing lines
TimingLineCalls == {"metricVals", "fmtTimingLine"}

\* metricVals(data, metricName): data?.metrics?.[metricName]?.values || null
metricVals(data, metricName) ==
  IF Has(data, "metrics") /\ Has(data.metrics, metricName)
    THEN data.metrics[metricName]
  ELSE NoRaw

\* fmtTimingLine(label, v), after the label
fmtTimingLine(v) ==
  IF v = NoRaw THEN [none |-> Dash]
  ELSE [ avg |-> fmtMs(StatOf(v, "avg")), p90 |-> fmtMs(StatOf(v, "p90")),
         p95 |-> fmtMs(StatOf(v, "p95")), max |-> fmtMs(StatOf(v, "max")) ]

\* what the call handleSummary(data) of src/true_user.js comes to: the text
\* (the table's cells, the three timing lines), or the error it raises.
\* data.metrics[...] in epRowFromData is a TypeError when data has no
\* metrics; a call of a function the module does not declare is a
\* ReferenceError
NoText == [raised |-> "none", table |-> NoRaw, timings |-> NoRaw]
handleSummaryTrueUser(data) ==
  IF ~Has(data, "metrics") THEN [NoText EXCEPT !.raised = "TypeError"]
  ELSE IF ~(TimingLineCalls \subseteq TrueUserFunctions)
    THEN [NoText EXCEPT !.raised = "ReferenceError"]
  ELSE [ raised |-> "none",
         table |-> SummaryCells(epRowFromData(data.metrics)),
         timings |-> [f \in TimingFields |-> fmtTimingLine(metricVals(data, f))] ]

\* the data handleSummary is given: no metrics at all, or for an endpoint and
\* for each timing tracker a metric that may be missing
TimingStats ==
  {NoRaw, [avg |-> [frac |-> 3], p90 |-> [num |-> 9], p95 |-> NoRaw,
           max |-> [num |-> 1200]]}
SummaryData ==
  {[nometrics |-> TRUE]} \cup
  { [metrics |->
       [ reqs |-> r, fails |-> f, duration |-> d, connecting |-> c,
         tls_handshaking |-> t, waiting |-> v ]] :
      r \in CountMetrics(0, 2), f \in CountMetrics(0, 0),
      d \in TimingStats, c \in TimingStats, t \in TimingStats, v \in TimingStats }

FnHandleSummaryTrueUser ==
  FnReturn("handleSummaryTrueUser", handleSummaryTrueUser(fnCall.arg))

\* ---- the identity of a VU (default(), lines 432-434)
USER_DOMAIN == "chunky.test"
USER_PREFIX == "testuser"

\* "0".repeat(k)
Zeros(k) == [i \in 1..k |-> "0"]

\* pad4(n): String(n), left-padded with zeros to four characters
pad4Last4(n) ==
  LET t == DigitsOf(n) IN
  IF Len(t) >= 4 THEN SubSeq(t, Len(t) - 3, Len(t)) ELSE Zeros(4 - Len(t)) \o t
pad4(n) ==
  LET t == DigitsOf(n) IN
  IF Len(t) >= 4 THEN t ELSE Zeros(4 - Len(t)) \o t

\* const vuBase = USER_OFFSET + (__VU - 1); userNum = (vuBase % USER_COUNT) + 1
userNum(offset, vu, count) ==
  LET vuBase == offset + (vu - 1) IN (vuBase % count) + 1

\* `${USER_PREFIX}${pad4(userNum)}@${USER_DOMAIN}`, character by character
\* after the prefix
email(n) == << USER_PREFIX >> \o pad4(n) \o << "@", USER_DOMAIN >>

\* what one iteration of a worker derives; the iteration number is not read
IdentityOf(worker, count) ==
  LET n == userNum(worker.offset, worker.vu, count) IN
  [ userNum |-> n, email |-> email(n) ]

\* USER_OFFSET of a load generator, USER_COUNT, and the iterations compared
UserOffsets == {0, 1, 98, 10000}
UserCounts == {1, 2, 99, 12345}
Iterations == {0, 1}
Workers ==
  [ offset : UserOffsets, vu : 1..MaxVUIndex, iter : Iterations ]

\* the identities two workers derive, each in an iteration of its own
FnIdentity ==
  FnReturn("identity",
           [ a |-> IdentityOf(fnCall.arg.a, fnCall.arg.count),
             b |-> IdentityOf(fnCall.arg.b, fnCall.arg.count) ])

InitFn ==
  /\ InitWith({}, 0, 0, 0)
  /\ \/ \E s \in StatusCodes : FnStart("recordEndpoint", s)
     \/ \E s \in StatusCodes : FnStart("getJSON", s)
     \/ \E j \in PayloadsOf(CursorItems) : FnStart("extractAfterDateFromLumps", j)
     \/ \E j \in IdPayloads, k \in 0..MaxCount :
          FnStart("extractLumpIds", [respJson |-> j, maxIds |-> k])
     \/ \E data \in EndpointData :
          /\ CountOf(data.fails) <= CountOf(data.reqs)
          /\ FnStart("handleSummary", data)
     \/ \E data \in SummaryData : FnStart("handleSummaryTrueUser", data)
     \/ \E a \in Workers, b \in Workers, count \in UserCounts :
          FnStart("identity", [a |-> a, b |-> b, count |-> count])

NextFn ==
  \/ FnRecordEndpoint
  \/ FnGetJSON
  \/ FnExtractAfterDate
  \/ FnExtractLumpIds
  \/ FnSummaryCells
  \/ FnIdentity
  \/ FnHandleSummaryTrueUser

SpecFn == InitFn /\ [][NextFn]_vars

\* ------------------------------------------------ the guest flows
\* SpecGuest: default() of web_guest.js and of mobile_guest.js, which issue
\* the same calls (they differ in headers, sleeps and options), a call a step
\* the members of body.lumps: null, or an object that may hold team_id and
\* source_id (0 is falsy, as a missing member is)
NullItem == [null |-> TRUE]
GuestItems ==
  { NullItem, [title |-> 1], [team_id |-> 7], [source_id |-> 9],
    [team_id |-> 7, source_id |-> 9], [team_id |-> 0, source_id |-> 9],
    [team_id |-> 0] }

\* the bodies of the latest response: not JSON, JSON without lumps, lumps
\* that is not an array, an empty array, an array of one item, of two
GuestBodies ==
  { [json |-> FALSE], [json |-> TRUE], [json |-> TRUE, lumps |-> [str |-> <<"x">>]],
    [json |-> TRUE, lumps |-> [arr |-> <<>>]],
    [json |-> TRUE, lumps |-> [arr |-> << [title |-> 1], [team_id |-> 7] >>]] }
    \cup {[json |-> TRUE, lumps |-> [arr |-> << i >>]] : i \in GuestItems}

\* the status codes of the latest and team feed responses, and of the games
\* response (0: no response), at the edges of the classes
FeedStatuses == {200, 404, 500}
GamesStatuses == {0, 199, 200, 299, 300, 399, 400, 499, 500, 599, 600}

\* common.js, safeJSON(res): res.json(), null when it throws
safeJSON(res) == IF res.body.json THEN res.body ELSE NullItem

\* common.js, pick(arr), Math.random drawing position k
pick(arr, k) == IF Len(arr) = 0 THEN NullItem ELSE arr[k]

\* item.f as a condition reads it: 0 when missing
Member(item, f) == IF Has(item, f) THEN item[f] ELSE 0

\* let teamId = 5; if (body && Array.isArray(body.lumps)) { const any =
\* pick(body.lumps); if (any && (any.source_id || any.team_id)) teamId =
\* (any.team_id || any.source_id) }
FALLBACK_TEAM == 5
deriveTeamId(body, k) ==
  IF body = NullItem \/ ~Has(body, "lumps") \/ ~Has(body.lumps, "arr")
    THEN FALLBACK_TEAM
  ELSE LET any == pick(body.lumps.arr, k) IN
       IF any # NullItem /\ (Member(any, "source_id") # 0 \/ Member(any, "team_id") # 0)
         THEN IF Member(any, "team_id") # 0 THEN any.team_id ELSE any.source_id
       ELSE FALLBACK_TEAM

\* the positions pick can draw from body.lumps
Positions(body) ==
  IF body.json /\ Has(body, "lumps") /\ Has(body.lumps, "arr") /\ body.lumps.arr # <<>>
    THEN 1..Len(body.lumps.arr)
  ELSE {1}

\* the Counter the games response's status is counted in: "none" for 2xx
GamesFailClassFrom300(status) ==
  IF status >= 200 /\ status < 300 THEN "none"
  ELSE IF status >= 300 /\ status < 500 THEN "games_fail_4xx"
  ELSE IF status >= 500 /\ status < 600 THEN "games_fail_5xx"
  ELSE "games_fail_other"
GamesFailClass(status) ==
  IF status >= 200 /\ status < 300 THEN "none"
  ELSE IF status >= 400 /\ status < 500 THEN "games_fail_4xx"
  ELSE IF status >= 500 /\ status < 600 THEN "games_fail_5xx"
  ELSE "games_fail_other"

\* getJSON(url, { headers }) by flow f to endpoint ep for team, answered by res
GuestCall(gs, f, ep, team, res) ==
  [ gs EXCEPT !.g = getJSON(@, res),
              !.calls[f] = Append(@, [ep |-> ep, team |-> team]),
              !.issued = @ + 1 ]

GuestUnchanged ==
  UNCHANGED << vus, limit, flowVars, metricVars, rec, nreq, nfault, nextra, sent,
               timed, fnCall >>

\* 1) latest, and the team id derived from its body
GuestLatest(f) ==
  /\ guest.at[f] = "latest"
  /\ guest.issued < MaxGuestCalls
  /\ \E status \in FeedStatuses, body \in GuestBodies :
       \E k \in Positions(body) :
         LET res == [status |-> status, body |-> body, timings |-> FullTimings]
             gs == [guest EXCEPT !.calls[f] = <<>>, !.answered[f] = 0]
             teamId == deriveTeamId(safeJSON(res), k)
         IN guest' = [ GuestCall(gs, f, "latest", 0, res) EXCEPT
                         !.teamId[f] = teamId,
                         !.yielded[f] = body.json /\ Has(body, "lumps")
                                          /\ Has(body.lumps, "arr")
                                          /\ \E i \in 1..Len(body.lumps.arr) :
                                               LET it == body.lumps.arr[i] IN
                                               \/ Member(it, "team_id") # 0
                                               \/ Member(it, "source_id") # 0,
                         !.at[f] = "team" ]
  /\ GuestUnchanged

\* 2) team feed
GuestTeam(f) ==
  /\ guest.at[f] = "team"
  /\ guest.issued < MaxGuestCalls
  /\ \E status \in FeedStatuses :
       LET res == [status |-> status, body |-> NoBody, timings |-> FullTimings] IN
       guest' = [ GuestCall(guest, f, "teamFeed", guest.teamId[f], res) EXCEPT
                    !.at[f] = "games" ]
  /\ GuestUnchanged

\* 3) games screen, with the failure classification; Counter objects have no
\* value member, so games_fail_logged.value < 10 is false and nothing is
\* logged or added to games_fail_logged
GuestGames(f) ==
  /\ guest.at[f] = "games"
  /\ guest.issued < MaxGuestCalls
  /\ \E status \in GamesStatuses :
       LET res == [status |-> status, body |-> NoBody, timings |-> FullTimings]
           class == GamesFailClass(status)
           gs == GuestCall(guest, f, "gamesScreen", guest.teamId[f], res)
       IN guest' = [ gs EXCEPT
                       !.games_fail_4xx =
                          IF class = "games_fail_4xx" THEN CounterAdd(@, 1) ELSE @,
                       !.games_fail_5xx =
                          IF class = "games_fail_5xx" THEN CounterAdd(@, 1) ELSE @,
                       !.games_fail_other =
                          IF class = "games_fail_other" THEN CounterAdd(@, 1) ELSE @,
                       !.answered[f] = status,
                       !.at[f] = "latest" ]
  /\ GuestUnchanged

NextGuest ==
  \/ \E f \in GuestFlows : GuestLatest(f)
  \/ \E f \in GuestFlows : GuestTeam(f)
  \/ \E f \in GuestFlows : GuestGames(f)

InitGuest == InitWith({}, 0, 0, 0) /\ fnCall = NoFnCall

SpecGuest == InitGuest /\ [][NextGuest]_vars

\* ------------------------------------------- pickUniqueTeams, draw by draw
\* SpecPick: the while loop of pickUniqueTeams(count), one randomItem draw a
\* step. fnCall holds the call: picked is the Set in insertion order, again
\* the identifiers drawn once more after they were picked.
\* the positions of TEAM_IDS the draws are taken from (a sample of the pool
\* that holds both entries of 123, positions 93 and 94)
DrawnPositions == {1, 33, 93, 94, 125, 137, 138}

\* picked.add(item), picked a Set in insertion order
SetAddAlways(picked, item) == Append(picked, item)
SetAdd(picked, item) == IF InSeq(item, picked) THEN picked ELSE Append(picked, item)

PickUnchanged ==
  UNCHANGED << vus, limit, guest, flowVars, metricVars, rec, nreq, nfault, nextra, sent,
               timed >>

\* const picked = new Set(), for teamCount = randomIntBetween(2, 5)
InitPick ==
  /\ InitWith({}, 0, 0, 0)
  /\ \E count \in TeamCounts :
       fnCall = [ fn |-> "pickUniqueTeams", arg |-> count, done |-> FALSE,
                  picked |-> <<>>, again |-> {}, ret |-> <<>> ]

\* while (picked.size < count) picked.add(randomItem(TEAM_IDS)), randomItem
\* drawing position i
PickDraw(i) ==
  /\ ~fnCall.done
  /\ Len(fnCall.picked) < fnCall.arg
  /\ LET item == TEAM_IDS[i] IN
       fnCall' = [fnCall EXCEPT
                    !.picked = SetAdd(@, item),
                    !.again = IF InSeq(item, fnCall.picked) THEN @ \cup {item}
                              ELSE @]
  /\ PickUnchanged

\* return Array.from(picked)
PickReturn ==
  /\ ~fnCall.done
  /\ Len(fnCall.picked) >= fnCall.arg
  /\ fnCall' = [fnCall EXCEPT !.done = TRUE, !.ret = fnCall.picked]
  /\ PickUnchanged

NextPick ==
  \/ \E i \in DrawnPositions : PickDraw(i)
  \/ PickReturn

\* Math.random draws every position again and again, and the loop goes on
\* as long as its condition holds
SpecPick ==
  /\ InitPick
  /\ [][NextPick]_vars
  /\ \A i \in DrawnPositions : WF_vars(PickDraw(i))
  /\ WF_vars(PickReturn)

\* ============================================================== properties
\* the endpoints whose calls carry authReq or the probe's bearer token
AuthEps == {"me", "userTeams", "teamTop", "summary"}

\* the non-empty token a login body carries, Null when it carries none
BodyToken(body) ==
  IF body.json /\ Has(body, "token") /\ body.token # "" THEN body.token
  ELSE Null

\* ---------------------------------------------------------------------- C1
InvalidProbe(w) == last[w].ep = "me" /\ Unauthorized(last[w].status)

\* C1: when a probe (GET /users/me) is answered 401 or 403 while a token is
\* cached, the VU's token is cleared and the iteration is over: the next call
\* of the VU, if there is one, is the first call of a new iteration.
C1_InvalidProbeEndsIteration ==
  /\ [](\A w \in VUs : InvalidProbe(w) => VU_TOKEN[w] = Null /\ pc[w] = "idle")
  /\ [][\A w \in VUs : InvalidProbe(w) /\ nreq'[w] > nreq[w]
                         => last'[w].ep = "latest"]_vars

\* the probe of a second iteration, sent with the token cached by the first,
\* has been answered 401 or 403
C1_Witness ==
  /\ InvalidProbe(1)
  /\ last[1].tok = "abc"
  /\ hist[1].loginCalls = 1
  /\ sent["latest"].calls = 2
  /\ VU_TOKEN[1] = Null

\* ---------------------------------------------------------------------- C2
\* C2, as stated: after a probe that failed with a status other than 401 and
\* 403 the cached token is the one cached then, no login call is issued in
\* that iteration or the next one (up to a 401 / 403 probe of that next
\* iteration), and the iteration of the probe, once over, has reached the
\* authenticated reads with that token.
C2_SoftProbeFailureGoesOn ==
  \A w \in VUs :
    hist[w].soft.age > 0 =>
      /\ VU_TOKEN[w] = hist[w].soft.tok
      /\ hist[w].loginCalls = hist[w].soft.logins
      /\ hist[w].soft.age = 1 /\ pc[w] = "idle"
           => loc[w].authTok = hist[w].soft.tok

\* ---------------------------------------------------------------------- C3
LoginFailed(w) ==
  /\ last[w].ep = "login"
  /\ Failed(last[w].status) \/ BodyToken(last[w].body) = Null

\* C3: after a login call answered with a status outside 2xx, or with a 2xx
\* body that carries no token, the VU has no token and the iteration is over:
\* the VU's next call, if any, is the first call of a new iteration (so no
\* second login, no probe, no authenticated read, no team call in this one).
C3_LoginFailureEndsIteration ==
  /\ [](\A w \in VUs : LoginFailed(w) => VU_TOKEN[w] = Null /\ pc[w] = "idle")
  /\ [][\A w \in VUs : LoginFailed(w) /\ nreq'[w] > nreq[w]
                         => last'[w].ep = "latest"]_vars

\* a login answered 200 with a JSON body without a token has ended the
\* iteration
C3_Witness ==
  /\ last[1].ep = "login"
  /\ last[1].status = 200
  /\ last[1].body = [json |-> TRUE]
  /\ pc[1] = "idle"
  /\ VU_TOKEN[1] = Null

\* ---------------------------------------------------------------------- C4
\* C4, as stated: a login response is an authentication failure exactly when
\* its status is outside [200, 300) or its body carries no token; any other
\* response caches the body's token and the iteration goes on to the probe.
C4_Any2xxWithTokenLogsIn ==
  \A w \in VUs :
    last[w].ep = "login" =>
      IF Failed(last[w].status) \/ BodyToken(last[w].body) = Null
        THEN VU_TOKEN[w] = Null /\ pc[w] = "idle"
        ELSE VU_TOKEN[w] = BodyToken(last[w].body) /\ pc[w] = "me1"

\* C4, amended: a login response is an authentication failure exactly when
\* its status is not 200 or its body is not JSON with a non-empty token; a
\* 200 response with a token caches the body's token and the iteration goes
\* on to the probe.
C4_Status200WithTokenLogsIn ==
  \A w \in VUs :
    last[w].ep = "login" =>
      IF last[w].status # 200 \/ BodyToken(last[w].body) = Null
        THEN VU_TOKEN[w] = Null /\ pc[w] = "idle"
        ELSE VU_TOKEN[w] = BodyToken(last[w].body) /\ pc[w] = "me1"

\* a login answered 201 with {token: "abc"} has been taken for a failure
C4_Witness ==
  /\ last[1].ep = "login"
  /\ last[1].status = 201
  /\ BodyToken(last[1].body) = "abc"
  /\ VU_TOKEN[1] = Null
  /\ pc[1] = "idle"

\* ---------------------------------------------------------------------- C5
\* C5: every call to the probe, user-teams, team top and team summary is sent
\* with a token, and every token sent is the token the VU has cached when the
\* call is issued; so with no token cached no such call is issued (the only
\* call that sets the token is a login that succeeds).
C5_AuthenticatedCallsCarryCachedToken ==
  [][\A w \in VUs :
       nreq'[w] > nreq[w] =>
         /\ last'[w].ep \in AuthEps => last'[w].tok # Null
         /\ last'[w].tok # Null => last'[w].tok = VU_TOKEN[w]]_vars

\* after the first token was invalidated, a team summary has been requested
\* with the token of the second login
C5_Witness ==
  /\ last[1].ep = "summary"
  /\ last[1].tok = "xyz"
  /\ VU_TOKEN[1] = "xyz"
  /\ hist[1].invalidProbes = 1

\* ---------------------------------------------------------------------- C6
\* C6: a login call is issued exactly by a VU that stands at the bootstrap
\* with no token cached, and the logins that succeeded never exceed one plus
\* the probes answered 401 or 403 (a probe that fails otherwise adds none).
C6_LoginOnlyWithoutToken ==
  /\ [](\A w \in VUs : hist[w].loginOK <= 1 + hist[w].invalidProbes)
  /\ [][\A w \in VUs :
          hist'[w].loginCalls # hist[w].loginCalls
            <=> (nreq'[w] > nreq[w] /\ pc[w] = "auth" /\ VU_TOKEN[w] = Null)]_vars

\* a second login has succeeded, after one probe answered 401 or 403
C6_Witness ==
  /\ hist[1].loginOK = 2
  /\ hist[1].invalidProbes = 1
  /\ last[1].ep = "login"

\* ---------------------------------------------------------------------- C7
\* the iteration of w has run through the last of its teams
Completed(w) ==
  /\ pc[w] = "idle"
  /\ loc[w].teams # <<>>
  /\ loc[w].ti = Len(loc[w].teams)
  /\ hist[w].topFor = loc[w].teams

\* C7, as stated: whichever authenticated call (probe, user-teams, team top,
\* team summary) is answered 401 or 403, the token is cleared and the
\* iteration is over.
C7_AnyUnauthorizedInvalidates ==
  \A w \in VUs :
    last[w].ep \in AuthEps /\ Unauthorized(last[w].status)
      => VU_TOKEN[w] = Null /\ pc[w] = "idle"

\* C7, amended: a 401 or 403 clears the token and ends the iteration only
\* when it answers the probe; when it answers user-teams, team top or team
\* summary the token sent stays cached and the iteration goes on, ending only
\* when it has run through its last team.
C7_OnlyProbeInvalidates ==
  \A w \in VUs :
    last[w].ep \in AuthEps /\ Unauthorized(last[w].status) =>
      IF last[w].ep = "me"
        THEN VU_TOKEN[w] = Null /\ pc[w] = "idle"
        ELSE /\ last[w].tok # Null
             /\ VU_TOKEN[w] = last[w].tok
             /\ pc[w] = "idle" => Completed(w)

\* team top of the first team was answered 403 and the iteration stands at
\* the feed of its second team, the token still cached
C7_Witness ==
  /\ last[1].ep = "teamTop"
  /\ last[1].status = 403
  /\ pc[1] = "tf1"
  /\ loc[1].ti = 2
  /\ VU_TOKEN[1] = last[1].tok

\* ---------------------------------------------------------------------- C8
IsPrefix(s, t) == Len(s) <= Len(t) /\ \A i \in 1..Len(s) : s[i] = t[i]

\* C8: in an iteration that has passed the bootstrap, the games calls and the
\* top calls issued so far are for the selected teams in order, one each, top
\* after games; and when the iteration is over, whatever the responses were,
\* it has selected 2 to 5 distinct teams and issued exactly one games call and
\* one top call for every one of them.
C8_EveryTeamVisited ==
  \A w \in VUs :
    loc[w].authTok # Null =>
      /\ IsPrefix(hist[w].gamesFor, loc[w].teams)
      /\ IsPrefix(hist[w].topFor, hist[w].gamesFor)
      /\ Len(hist[w].gamesFor) <= Len(hist[w].topFor) + 1
      /\ pc[w] = "idle" =>
           /\ Len(loc[w].teams) \in TEAM_COUNT_LOW..TEAM_COUNT_HIGH
           /\ Cardinality({loc[w].teams[i] : i \in 1..Len(loc[w].teams)})
                = Len(loc[w].teams)
           /\ hist[w].gamesFor = loc[w].teams
           /\ hist[w].topFor = loc[w].teams

\* an iteration is over in which a team feed call and a games call failed
C8_Witness ==
  /\ pc[1] = "idle"
  /\ loc[1].authTok # Null
  /\ sent["teamFeed"].failed >= 1
  /\ sent["gamesScreen"].failed >= 1
  /\ hist[1].topFor = loc[1].teams

\* ---------------------------------------------------------------------- C9
\* the VUs that have counted a request to e and not yet added its duration
BetweenReqsAndDur(e) ==
  Cardinality({w \in VUs : rec[w].at = "dur" /\ rec[w].ep = e})

C11_TokenOwnedByItsWorker ==
  [][\A w \in VUs :
       /\ VU_TOKEN'[w] # VU_TOKEN[w] =>
            /\ nreq'[w] > nreq[w]
            /\ \/ /\ last'[w].ep = "login"
                  /\ VU_TOKEN'[w] # Null
                  /\ VU_TOKEN'[w] = BodyToken(last'[w].body)
               \/ /\ last'[w].ep = "me"
                  /\ Unauthorized(last'[w].status)
                  /\ VU_TOKEN'[w] = Null
       /\ nreq'[w] > nreq[w] /\ last'[w].tok # Null =>
            /\ last'[w].tok \in hist[w].own
            /\ \A v \in VUs \ {w} : last'[w].tok \notin hist[v].own]_vars

\* VU 1 has lost its token to a 401 / 403 probe, and VU 2, logged in after
\* VU 1, has probed with its own token, which it still holds
C11_Witness ==
  /\ hist[1].own = {"abc"}
  /\ hist[1].invalidProbes = 1
  /\ VU_TOKEN[1] = Null
  /\ VU_TOKEN[2] = "xyz"
  /\ last[2].ep = "me"
  /\ last[2].tok = "xyz"


\* --------------------------------------------------------------------- C12
\* C12: for every status code s, recordEndpoint counts the call as failed
\* (fails counter, ep_any_fail_rate) exactly when s < 200 or s >= 300, and
\* getJSON counts it as failed (endpoint_fail) exactly when s < 200 or
\* s >= 300: both classify every status code alike.
C12_SameFailureClassification ==
  /\ fnCall.fn = "recordEndpoint" /\ fnCall.done =>
       /\ fnCall.ret.EP["latest"].fails = 1
            <=> (fnCall.arg < 200 \/ fnCall.arg >= 300)
       /\ fnCall.ret.epAnyFailRate.hits = fnCall.ret.EP["latest"].fails
       /\ fnCall.ret.EP["latest"].fails \in {0, 1}
  /\ fnCall.fn = "getJSON" /\ fnCall.done =>
       /\ fnCall.ret.endpointFail.hits = 1
            <=> (fnCall.arg < 200 \/ fnCall.arg >= 300)
       /\ fnCall.ret.endpointFail.hits \in {0, 1}

\* getJSON has classified a response with status 300 as failed
C12_Witness ==
  /\ fnCall.fn = "getJSON"
  /\ fnCall.done
  /\ fnCall.arg = 300
  /\ fnCall.ret.endpointFail.hits = 1


\* --------------------------------------------------------------------- C13
\* a strictly before b in the lexical order of strings
LexLess(a, b) ==
  \E k \in 0..Len(a) :
    /\ k <= Len(b)
    /\ \A i \in 1..k : a[i] = b[i]
    /\ \/ k = Len(a) /\ k < Len(b)
       \/ k < Len(a) /\ k < Len(b) /\ a[k + 1] < b[k + 1]

\* the timestamp of an item: its updated_at when it has one, else its
\* created_at, else none
StampOf(item) ==
  IF Has(item, "updated_at") /\ item.updated_at # NoTime THEN item.updated_at
  ELSE IF Has(item, "created_at") THEN item.created_at
  ELSE NoTime

StampsOf(items) == {StampOf(items[i]) : i \in 1..Len(items)} \ {NoTime}

\* t is the lexically greatest member of TS, or none when TS is empty
GreatestOf(t, TS) ==
  IF TS = {} THEN t = NoTime
  ELSE t \in TS /\ \A u \in TS : u = t \/ LexLess(u, t)

CursorReturned ==
  fnCall.fn = "extractAfterDateFromLumps" /\ fnCall.done

\* C13: for a payload with a non-empty items list the cursor returned is the
\* lexically greatest of the items' timestamps (updated_at when present,
\* else created_at), and none when no item has a timestamp; for the items
\* [updated_at 1, updated_at 3, created_at 2] it is 3.
C13_CursorIsGreatestStamp ==
  CursorReturned /\ Has(fnCall.arg, "lumps") /\ fnCall.arg.lumps # <<>> =>
    /\ GreatestOf(fnCall.ret, StampsOf(fnCall.arg.lumps))
    /\ fnCall.arg.lumps = << [updated_at |-> <<1>>], [updated_at |-> <<3>>],
                             [created_at |-> <<2>>] >>
         => fnCall.ret = <<3>>

\* the cursor of [updated_at 1, updated_at 3, created_at 2] has been returned
C13_Witness ==
  /\ CursorReturned
  /\ Has(fnCall.arg, "lumps")
  /\ fnCall.arg.lumps = << [updated_at |-> <<1>>], [updated_at |-> <<3>>],
                           [created_at |-> <<2>>] >>
  /\ fnCall.ret = <<3>>

\* --------------------------------------------------------------------- C14
\* C14, as stated: for a payload with no primary list and a fallback list
\* (top_lumps) the cursor is the greatest timestamp of the fallback list.
C14_CursorFromFallbackList ==
  CursorReturned /\ ~Has(fnCall.arg, "lumps") /\ Has(fnCall.arg, "top_lumps") =>
    GreatestOf(fnCall.ret, StampsOf(fnCall.arg.top_lumps))

\* C14, amended: the cursor is read from the primary list (lumps) only; for a
\* payload without it the cursor is none, whatever the fallback list
\* (top_lumps) holds.
C14_CursorFromPrimaryListOnly ==
  CursorReturned /\ ~Has(fnCall.arg, "lumps") => fnCall.ret = NoTime

\* no cursor has been returned for a payload whose fallback list has
\* timestamped items
C14_Witness ==
  /\ CursorReturned
  /\ ~Has(fnCall.arg, "lumps")
  /\ Has(fnCall.arg, "top_lumps")
  /\ StampsOf(fnCall.arg.top_lumps) # {}
  /\ fnCall.ret = NoTime


\* --------------------------------------------------------------------- C15
IdsReturned == fnCall.fn = "extractLumpIds" /\ fnCall.done

PositiveInteger(x) == Has(x, "num") /\ x.num > 0

\* C15, as stated: for every payload and every maxIds >= 0, 0 included, the
\* identifiers returned are positive integers, pairwise distinct, and at most
\* maxIds of them.
C15_AtMostMaxIds ==
  IdsReturned =>
    /\ Len(fnCall.ret) <= fnCall.arg.maxIds
    /\ \A i \in 1..Len(fnCall.ret) : PositiveInteger(fnCall.ret[i])
    /\ \A i, j \in 1..Len(fnCall.ret) : i # j => fnCall.ret[i] # fnCall.ret[j]

\* --------------------------------------------------------------------- C16
\* the list the identifiers are read from
IdList(respJson) ==
  IF Has(respJson, "lumps") THEN respJson.lumps
  ELSE IF Has(respJson, "top_lumps") THEN respJson.top_lumps
  ELSE <<>>

\* an item's identifier: its id, else its lump_id, as a number
IdentifierOf(item) ==
  IF Has(item, "id") THEN ToIdNum(item.id)
  ELSE IF Has(item, "lump_id") THEN ToIdNum(item.lump_id)
  ELSE NaN

\* the positions whose identifier is positive and occurs at no earlier one
KeptPositions(items) ==
  { i \in 1..Len(items) :
      /\ FinitePositive(IdentifierOf(items[i]))
      /\ \A j \in 1..(i - 1) : IdentifierOf(items[j]) # IdentifierOf(items[i]) }

MinOf(a, b) == IF a <= b THEN a ELSE b

\* C16: for every payload and every maxIds >= 1, the identifiers returned are
\* the first maxIds, in the order met, of the items' identifiers (id, else
\* lump_id) with the missing, the non-positive and the ones met before
\* dropped; of five distinct ids with maxIds 3 the first three, and of
\* 7, 7, 8, 9, 6 with maxIds 3 they are 7, 8, 9.
C16_FirstDistinctIds ==
  IdsReturned /\ fnCall.arg.maxIds >= 1 =>
    LET items == IdList(fnCall.arg.respJson)
        kept == KeptPositions(items)
    IN /\ Len(fnCall.ret) = MinOf(fnCall.arg.maxIds, Cardinality(kept))
       /\ \A k \in 1..Len(fnCall.ret) :
            \E i \in kept :
              /\ Cardinality({j \in kept : j <= i}) = k
              /\ fnCall.ret[k] = IdentifierOf(items[i])
       /\ items = FiveIds /\ fnCall.arg.maxIds = 3
            => fnCall.ret = << [num |-> 1], [num |-> 2], [num |-> 3] >>
       /\ items = TwiceFirst /\ fnCall.arg.maxIds = 3
            => fnCall.ret = << [num |-> 7], [num |-> 8], [num |-> 9] >>

\* of the ids 7, 7, 8, 9, 6 the identifiers 7, 8, 9 have been returned
C16_Witness ==
  /\ IdsReturned
  /\ fnCall.arg.maxIds = 3
  /\ IdList(fnCall.arg.respJson) = TwiceFirst
  /\ fnCall.ret = << [num |-> 7], [num |-> 8], [num |-> 9] >>


\* --------------------------------------------------------------------- C17
\* the reads of the user-teams feed a VU has made when step 3 is over
Step3Over(w) == pc[w] = "pick"

UrlOf(read) == [ep |-> read.ep, team |-> read.team, after |-> read.after]

\* doTwice came out TRUE (as it does at every draw when the probability is
\* 1.0); of a step 3 that made no repeat nothing is known of the draw
DrawnTwice(reads) == Len(reads) >= 2 => reads[2].twice

\* C17: when the first user-teams response yields a cursor and doTwice is
\* TRUE, step 3 makes exactly three user-teams calls: the first without
\* after_date and two repeats of one and the same URL, whose after_date is the
\* cursor of the first response, whatever the first repeat's response yields.
C17_TwoRepeatsWithFirstCursor ==
  \A w \in vus :
    LET reads == hist[w].reads IN
    Step3Over(w) /\ reads # <<>> /\ reads[1].cur # NoTime /\ DrawnTwice(reads) =>
      /\ Len(reads) = 3
      /\ \A i \in 1..3 : reads[i].ep = "userTeams"
      /\ reads[1].after = NoTime
      /\ UrlOf(reads[2]) = UrlOf(reads[3])
      /\ reads[2].after = reads[1].cur
      /\ reads[3].after = reads[1].cur

\* three user-teams calls made, the first repeat's response yielding another
\* cursor than the first page's, or none
C17_Witness ==
  \E w \in vus :
    LET reads == hist[w].reads IN
    /\ Step3Over(w)
    /\ Len(reads) = 3
    /\ reads[1].cur # NoTime
    /\ reads[2].cur # reads[1].cur
    /\ reads[3].after = reads[1].cur


\* --------------------------------------------------------------------- C18
\* the reads of a feed are over: of user-teams, or of the current team's feed
FeedOver(w) == pc[w] \in {"pick", "games"}

\* C18, as stated: a feed whose first response yields a cursor is read once
\* only when no draw came out for repeating (doTwice / teamTwice FALSE, as
\* always when the probability is 0), and is never read a third time unless
\* it was repeated a first time.
C18_NoRepeatUnlessDrawn ==
  \A w \in vus :
    LET reads == hist[w].reads IN
    FeedOver(w) /\ reads # <<>> =>
      /\ reads[1].cur # NoTime /\ (\A i \in 2..Len(reads) : ~reads[i].twice)
           => Len(reads) = 1
      /\ Len(reads) >= 3 => reads[2].after # NoTime



\* C18, amended: a feed whose first response yields no cursor is read once;
\* one whose first response yields a cursor is always read a second time
\* with that cursor, and a third time, with the same cursor, exactly when
\* doTwice / teamTwice came out TRUE: with the draw against repeating, as
\* always when the probability is 0, the feed is read exactly twice.
C18_FirstRepeatWheneverCursor ==
  \A w \in vus :
    LET reads == hist[w].reads IN
    FeedOver(w) /\ reads # <<>> =>
      /\ reads[1].after = NoTime
      /\ reads[1].cur = NoTime => Len(reads) = 1
      /\ reads[1].cur # NoTime =>
           /\ Len(reads) >= 2
           /\ Len(reads) = IF reads[2].twice THEN 3 ELSE 2
           /\ \A i \in 2..Len(reads) :
                /\ reads[i].after = reads[1].cur
                /\ reads[i].ep = reads[1].ep
                /\ reads[i].team = reads[1].team
                /\ reads[i].twice = reads[2].twice

\* a team's feed has been read exactly twice, teamTwice being FALSE
C18_Witness ==
  \E w \in vus :
    LET reads == hist[w].reads IN
    /\ pc[w] = "games"
    /\ Len(reads) = 2
    /\ reads[1].ep = "teamFeed"
    /\ reads[1].cur # NoTime
    /\ ~reads[2].twice

\* --------------------------------------------------------------------- C19
\* the identifiers the pool leaves out
ExcludedTeams == (33..62) \cup {124, 155, 168}

TeamsOf(w) == {loc[w].teams[i] : i \in 1..Len(loc[w].teams)}

IterationOver(w) == pc[w] = "idle"

\* C19: once an iteration has selected its teams, they are pairwise
\* distinct, each is in TEAM_IDS and none in 33..62, 124, 155, 168, and they
\* are 2 to 5; when 2 were asked for, the iteration ends with exactly 2
\* distinct teams visited, a games call and a top call issued for each, with
\* or without a summary call.
C19_DistinctTeamsFromPool ==
  \A w \in vus :
    loc[w].teams # <<>> =>
      /\ \A i, j \in 1..Len(loc[w].teams) :
           i # j => loc[w].teams[i] # loc[w].teams[j]
      /\ \A t \in TeamsOf(w) :
           /\ \E i \in 1..Len(TEAM_IDS) : TEAM_IDS[i] = t
           /\ t \notin ExcludedTeams
      /\ Len(loc[w].teams) >= TEAM_COUNT_LOW
      /\ Len(loc[w].teams) <= TEAM_COUNT_HIGH
      /\ IterationOver(w) /\ Len(loc[w].teams) = 2 =>
           /\ Cardinality(TeamsOf(w)) = 2
           /\ \A t \in TeamsOf(w) :
                /\ \E i \in 1..Len(hist[w].gamesFor) : hist[w].gamesFor[i] = t
                /\ \E i \in 1..Len(hist[w].topFor) : hist[w].topFor[i] = t
           /\ {hist[w].gamesFor[i] : i \in 1..Len(hist[w].gamesFor)} = TeamsOf(w)

\* an iteration is over that visited 2 teams, with a summary call for one of
\* them and none for the other
C19_Witness ==
  \E w \in vus :
    /\ IterationOver(w)
    /\ Len(loc[w].teams) = 2
    /\ Len(hist[w].topFor) = 2
    /\ sent["summary"].calls = 1


\* --------------------------------------------------------------------- C20
LineRendered == fnCall.fn = "handleSummary" /\ fnCall.done

\* what a cell shows: its text without the padding
RECURSIVE Shown(_)
Shown(cell) == IF cell # <<>> /\ Head(cell) = " " THEN Shown(Tail(cell)) ELSE cell

RECURSIVE NumberOf(_)
NumberOf(digits) ==
  IF digits = <<>> THEN 0
  ELSE 10 * NumberOf(SubSeq(digits, 1, Len(digits) - 1))
         + DigitVal(digits[Len(digits)])

Dist(a, b) == IF a >= b THEN a - b ELSE b - a

\* text is f / r as a percentage with two decimals: digits, a point, two
\* digits and %, the number being the nearest to 100 f / r
ShowsPercentage(text, f, r) ==
  LET k == Len(text) IN
  /\ k >= 5
  /\ text[k] = "%"
  /\ text[k - 3] = "."
  /\ \A i \in (1..(k - 4)) \cup {k - 2, k - 1} : IsDigit(text[i])
  /\ LET h == 100 * NumberOf(SubSeq(text, 1, k - 4))
                + NumberOf(SubSeq(text, k - 2, k - 1))
     IN 2 * Dist(h * r, 10000 * f) <= r

DurationCells(cells) == << cells.avg, cells.p90, cells.p95, cells.max >>

\* C20, as stated: the line of a bucket with 0 requests shows "-" for the
\* failure percentage and for avg, p90, p95 and max; the line of a bucket
\* with r > 0 requests and f failures shows f / r as a percentage with two
\* decimals, 10.00% for 10 and 1; nothing is divided by zero.
C20_DashWithoutRequests ==
  LineRendered =>
    LET row == fnCall.ret.row
        cells == fnCall.ret.cells
    IN /\ row.reqs = 0 =>
            /\ Shown(cells.failPct) = Dash
            /\ \A i \in 1..4 : Shown(DurationCells(cells)[i]) = Dash
       /\ row.reqs > 0 => ShowsPercentage(Shown(cells.failPct), row.fails, row.reqs)
       /\ row.reqs = 10 /\ row.fails = 1
            => Shown(cells.failPct) = <<"1", "0", ".", "0", "0", "%">>
       /\ Has(row.failRate, "d") => row.failRate.d # 0

\* C20, amended: the line of a bucket with 0 requests shows 0.00% for the
\* failure percentage, and "-" for each of avg, p90, p95 and max exactly when
\* the summary data hold no value for it, as when the duration metric is
\* missing; with r > 0 requests and f failures it shows f / r as a percentage
\* with two decimals, 10.00% for 10 and 1; nothing is divided by zero.
C20_ZeroPercentWithoutRequests ==
  LineRendered =>
    LET row == fnCall.ret.row
        cells == fnCall.ret.cells
        stats == << row.avg, row.p90, row.p95, row.max >>
    IN /\ row.reqs = CountOf(fnCall.arg.reqs)
       /\ row.fails = CountOf(fnCall.arg.fails)
       /\ row.reqs = 0 =>
            /\ Shown(cells.failPct) = <<"0", ".", "0", "0", "%">>
            /\ \A i \in 1..4 :
                 Shown(DurationCells(cells)[i]) = Dash <=> stats[i] = NoRaw
            /\ fnCall.arg.duration = NoRaw => \A i \in 1..4 : stats[i] = NoRaw
       /\ row.reqs > 0 => ShowsPercentage(Shown(cells.failPct), row.fails, row.reqs)
       /\ row.reqs = 10 /\ row.fails = 1
            => Shown(cells.failPct) = <<"1", "0", ".", "0", "0", "%">>
       /\ Has(row.failRate, "d") /\ row.failRate.d # 0

\* the line of a bucket with no request and no duration metric is rendered:
\* 0.00% and four dashes
C20_Witness ==
  /\ LineRendered
  /\ CountOf(fnCall.arg.reqs) = 0
  /\ fnCall.arg.duration = NoRaw
  /\ Shown(fnCall.ret.cells.failPct) = <<"0", ".", "0", "0", "%">>
  /\ Shown(fnCall.ret.cells.max) = Dash


\* --------------------------------------------------------------------- C21
\* C21, as stated: whatever the response of a call (any status, any timings,
\* a response without timings included), recording it raises nothing: no
\* iteration ends with an exception.
C21_NothingRaised == \A w \in vus : pc[w] # "raised"


\* --------------------------------------------------------------------- C22
\* where default() goes on after the first read of a feed
StepsAfter(ep) ==
  IF ep = "latest" THEN {"auth"}
  ELSE IF ep = "userTeams" THEN {"pick", "tf1"}
  ELSE {"games"}

\* C22: after a feed call answered 200 with a body that is not JSON, has no
\* list, an empty list, or items with no usable identifier and no timestamp,
\* the VU issues no comments call and, when the call was the first read of
\* the feed, no repeat of it: it stands at the step that follows the feed,
\* the feed read once and no cursor derived.
C22_NothingToGoOn ==
  \A w \in vus :
    last[w].nodata =>
      /\ pc[w] \notin {"comments", "raised"}
      /\ loc[w].pend = <<>>
      /\ last[w].after = NoTime =>
           /\ pc[w] \in StepsAfter(last[w].ep)
           /\ loc[w].cursor = NoTime
           /\ pc[w] \in {"pick", "games"} =>
                Len(hist[w].reads) = 1 /\ hist[w].reads[1].cur = NoTime

\* a team's feed was answered 200 with nothing to go on, and the VU is about
\* to request the team's games
C22_Witness ==
  \E w \in vus :
    /\ last[w].nodata
    /\ last[w].ep = "teamFeed"
    /\ last[w].after = NoTime
    /\ pc[w] = "games"

\* --------------------------------------------------------------------- C23
TrackerOf(f) ==
  IF f = "connecting" THEN T_CONNECTING
  ELSE IF f = "tls_handshaking" THEN T_TLS
  ELSE T_WAITING

\* C23: after any sequence of recorded calls each of the three global timing
\* Trends holds as many samples as calls reported its field as a finite
\* number: a call whose field is missing, or is not a finite number, adds no
\* sample, not even 0.
C23_SamplePerFiniteField == \A f \in TimingFields : TrackerOf(f) = timed[f]

\* three calls recorded: connecting was finite in two of them, waiting in
\* none, tls_handshaking in all
C23_Witness ==
  /\ sent["latest"].calls = 3
  /\ T_CONNECTING = 2
  /\ T_WAITING = 0
  /\ T_TLS = 3
  /\ \A w \in vus : pc[w] = "idle"


\* --------------------------------------------------------------------- C24
\* the VU is past the auth bootstrap of its iteration
PastBootstrap(w) ==
  pc[w] \in {"ut1", "ut2", "ut3", "pick", "tf1", "tf2", "tf3", "games", "top",
             "summary"}

\* C24, as stated: an iteration issues at most one GET /users/me, and exactly
\* one once it is past the bootstrap, whether its token was cached or comes
\* from a login of this iteration.
C24_OneProbePerIteration ==
  \A w \in vus :
    /\ hist[w].probes <= 1
    /\ PastBootstrap(w) => hist[w].probes = 1


\* --------------------------------------------------------------------- C25
PositionOf(t, teams) ==
  IF \E i \in 1..Len(teams) : teams[i] = t
    THEN CHOOSE i \in 1..Len(teams) : teams[i] = t
    ELSE 0

\* call c may come right after call b of the same iteration (comments calls
\* left out), the teams being visited in the order of teams
MayFollow(b, c, teams) ==
  LET sameTeam == b.team = c.team
      k == PositionOf(c.team, teams)
  IN CASE c.ep = "login" -> b.ep = "latest"
       [] c.ep = "me" -> b.ep \in {"latest", "login", "me"}
       [] c.ep = "userTeams" -> b.ep \in {"me", "userTeams"}
       [] c.ep = "teamFeed" ->
            /\ k >= 1
            /\ \/ b.ep = "userTeams" /\ k = 1
               \/ b.ep = "teamFeed" /\ sameTeam
               \/ /\ b.ep \in {"teamTop", "summary"}
                  /\ PositionOf(b.team, teams) = k - 1
       [] c.ep = "gamesScreen" -> b.ep = "teamFeed" /\ sameTeam /\ k >= 1
       [] c.ep = "teamTop" -> b.ep = "gamesScreen" /\ sameTeam /\ k >= 1
       [] c.ep = "summary" -> b.ep = "teamTop" /\ sameTeam /\ k >= 1
       [] OTHER -> FALSE

\* C25: the calls of a VU follow the order of default(): an iteration starts
\* with the guest latest read and nothing else does; a login is issued only
\* without a cached token and right after latest; probes come before the
\* user-teams reads, these before the first team; for each team its feed
\* reads, then games, then top, then the summary if any, and the teams one
\* after the other in the order selected (comments calls come in between).
C25_CallsInScriptOrder ==
  [][ \A w \in vus :
        nreq'[w] # nreq[w] =>
          LET c == last'[w] IN
          /\ (c.ep = "latest") <=> (pc[w] = "idle")
          /\ c.ep = "login" => VU_TOKEN[w] = Null
          /\ c.ep = "comments" => pc[w] = "comments"
          /\ c.ep \notin {"latest", "comments"} =>
               MayFollow(c.prev, c, loc'[w].teams) ]_vars

\* the summary call of the second team has been issued
C25_Witness ==
  \E w \in vus :
    /\ last[w].ep = "summary"
    /\ PositionOf(last[w].team, loc[w].teams) = 2
    /\ last[w].prev.ep = "teamTop"


\* --------------------------------------------------------------------- C26
FeedEps == {"latest", "userTeams", "teamFeed"}

\* C26, as stated: a feed call is followed by at most COMMENTS_PER_FEED
\* comments calls, by none when it failed, and comments calls follow feed
\* calls only; so the comments calls are at most COMMENTS_PER_FEED times the
\* feed calls.
C26_FanoutBounded ==
  /\ \A w \in vus :
       /\ hist[w].fan <= limit.perFeed
       /\ last[w].ep \in FeedEps /\ Failed(last[w].status) =>
            hist[w].fan = 0 /\ pc[w] # "comments"
       /\ last[w].ep = "comments" => last[w].prev.ep \in FeedEps
  /\ sent["comments"].calls
       <= limit.perFeed * (sent["latest"].calls + sent["userTeams"].calls
                             + sent["teamFeed"].calls)

\* --------------------------------------------------------------------- C27
\* a probe of w was answered 401 or 403 and no login has succeeded since
AwaitsLogin(w) ==
  /\ hist[w].invalidProbes > 0
  /\ hist[w].loginOK = hist[w].invalidProbes

\* the call default() issues next from where VU w stands without a token
CallWithoutToken(w) ==
  CASE pc[w] = "idle" -> "latest"
    [] pc[w] = "comments" -> "comments"
    [] OTHER -> "login"

\* C27: after a probe answered 401 or 403 the VU holds no token and its next
\* iteration issues the guest feed read (and the comments calls of that
\* read), then a login, with no authenticated call before that login; a
\* login answered 200 with a token leaves the VU holding that token, about
\* to probe with it, and any other leaves it without a token, its iteration
\* over.
C27_LoginAfterInvalidProbe ==
  /\ [](\A w \in VUs :
          AwaitsLogin(w) =>
            /\ VU_TOKEN[w] = Null
            /\ pc[w] \in {"idle", "comments", "auth"}
            /\ pc[w] = "comments" => loc[w].ret = "latest")
  /\ [][\A w \in VUs :
          AwaitsLogin(w) /\ nreq'[w] # nreq[w] =>
            /\ last'[w].ep = CallWithoutToken(w)
            /\ last'[w].tok = Null
            /\ last'[w].ep # "login" => AwaitsLogin(w)' /\ pc'[w] # "idle"
            /\ last'[w].ep = "login" =>
                 /\ last[w].ep \in {"latest", "comments"}
                 /\ IF last'[w].status = 200 /\ BodyToken(last'[w].body) # Null
                      THEN /\ VU_TOKEN'[w] = BodyToken(last'[w].body)
                           /\ pc'[w] = "me1"
                      ELSE /\ VU_TOKEN'[w] = Null
                           /\ pc'[w] = "idle"]_vars

\* the login of the iteration after a probe answered 401 or 403 has returned
\* a token, and the VU is about to probe with it
C27_Witness ==
  /\ hist[1].invalidProbes = 1
  /\ hist[1].loginOK = 2
  /\ last[1].ep = "login"
  /\ last[1].prev.ep = "latest"
  /\ VU_TOKEN[1] = BodyToken(last[1].body)
  /\ VU_TOKEN[1] # Null
  /\ pc[1] = "me1"

\* --------------------------------------------------------------------- C28
\* the logical endpoint of the call default() issues from where VU w stands
EndpointAt(w) ==
  CASE pc[w] = "idle" -> "latest"
    [] pc[w] = "comments" -> "comments"
    [] pc[w] = "auth" -> IF VU_TOKEN[w] = Null THEN "login" ELSE "me"
    [] pc[w] \in {"me1", "me2"} -> "me"
    [] pc[w] \in {"ut1", "ut2", "ut3"} -> "userTeams"
    [] pc[w] \in {"tf1", "tf2", "tf3"} -> "teamFeed"
    [] pc[w] = "games" -> "gamesScreen"
    [] pc[w] = "top" -> "teamTop"
    [] OTHER -> "summary"

\* the request counts of all the buckets together
RequestsCounted == SumOver([e \in EpNames |-> EP[e].reqs], EpNames)

\* C28: every call is recorded once in the bucket of its own endpoint (a
\* cursor repeat in that of its feed) and leaves every other bucket as it
\* was; there are nine buckets, each bucket's request count is the number of
\* calls issued to its endpoint, and together they count every call issued.
C28_CallInItsOwnBucket ==
  /\ [](/\ Cardinality(EpNames) = 9
        /\ \A e \in EpNames : EP[e].reqs = sent[e].calls
        /\ RequestsCounted = SumOver(nreq, VUs))
  /\ [][\A w \in VUs :
          nreq'[w] # nreq[w] =>
            LET own == EndpointAt(w) IN
            /\ nreq'[w] = nreq[w] + 1
            /\ last'[w].ep = own
            /\ EP'[own].reqs = EP[own].reqs + 1
            /\ \A e \in EpNames \ {own} : EP'[e] = EP[e]]_vars

\* a cursor repeat of user-teams and one of a team feed are recorded, each
\* under the endpoint of its first read
C28_Witness ==
  /\ last[1].ep = "teamFeed"
  /\ last[1].after # NoTime
  /\ EP["teamFeed"].reqs = 2
  /\ EP["userTeams"].reqs >= 2
  /\ EP["comments"].reqs = 0
  /\ RequestsCounted = nreq[1]

\* --------------------------------------------------------------------- C29
IdentitiesDerived == fnCall.fn = "identity" /\ fnCall.done

\* C29: the user number a worker derives is ((offset + index - 1) mod pool
\* size) + 1, the one number of 1..poolSize congruent to offset + index, and
\* with its email the same in every iteration of the worker; two workers
\* whose offset + index differ by a non-zero amount smaller than the pool
\* size derive different user numbers and different emails.
C29_IdentityFromOffsetAndIndex ==
  IdentitiesDerived =>
    LET a == fnCall.arg.a
        b == fnCall.arg.b
        poolSize == fnCall.arg.count
        Derived(w, id) ==
          /\ id.userNum = ((w.offset + w.vu - 1) % poolSize) + 1
          /\ id.userNum \in 1..poolSize
          /\ \A n \in 1..poolSize :
               (w.offset + w.vu - n) % poolSize = 0 <=> n = id.userNum
    IN
    /\ Derived(a, fnCall.ret.a)
    /\ Derived(b, fnCall.ret.b)
    /\ a.offset = b.offset /\ a.vu = b.vu => fnCall.ret.a = fnCall.ret.b
    /\ Dist(a.offset + a.vu, b.offset + b.vu) \in 1..(poolSize - 1) =>
         /\ fnCall.ret.a.userNum # fnCall.ret.b.userNum
         /\ fnCall.ret.a.email # fnCall.ret.b.email

\* worker 1 of the instance at offset 0 and worker 1 of the instance at
\* offset 10000 share a pool of 12345 users: testuser0001 and testuser10001
C29_Witness ==
  /\ IdentitiesDerived
  /\ fnCall.arg.count = 12345
  /\ fnCall.arg.a = [offset |-> 0, vu |-> 1, iter |-> 0]
  /\ fnCall.arg.b = [offset |-> 10000, vu |-> 1, iter |-> 1]
  /\ fnCall.ret.a.email = << "testuser", "0", "0", "0", "1", "@", "chunky.test" >>
  /\ fnCall.ret.b.userNum = 10001
  /\ Len(fnCall.ret.b.email) = 8

\* --------------------------------------------------------------------- C30
\* C30, as stated: for any metrics data, handleSummary of src/true_user.js
\* raises nothing and returns the per-endpoint table followed by the three
\* global timing lines (connecting, tls_handshaking, waiting).
C30_TableAndTimingLines ==
  fnCall.fn = "handleSummaryTrueUser" /\ fnCall.done =>
    /\ fnCall.ret.raised = "none"
    /\ fnCall.ret.table # NoRaw
    /\ fnCall.ret.timings # NoRaw
    /\ DOMAIN fnCall.ret.timings = TimingFields

\* --------------------------------------------------------------------- C31
\* the distinct identifiers of the pool
PoolIds == {TEAM_IDS[i] : i \in 1..Len(TEAM_IDS)}

\* how many members of the sequence t are x
Occurrences(t, x) == Cardinality({i \in 1..Len(t) : t[i] = x})

\* C31: the count requested (2 to 5) never exceeds the number of distinct
\* identifiers of the pool, and then, every position being drawn again and
\* again, pickUniqueTeams returns; what it returns is exactly count
\* identifiers of the pool, pairwise distinct, 123 among them at most once
\* though the pool lists it twice.
C31_PickReturnsDistinctTeams ==
  /\ [](fnCall.arg \in TEAM_COUNT_LOW..TEAM_COUNT_HIGH)
  /\ (fnCall.arg <= Cardinality(PoolIds)) ~> fnCall.done
  /\ [](fnCall.done =>
          /\ Len(fnCall.ret) = fnCall.arg
          /\ \A x \in PoolIds : Occurrences(fnCall.ret, x) <= 1
          /\ \A i \in 1..Len(fnCall.ret) : fnCall.ret[i] \in PoolIds)
  /\ Occurrences(TEAM_IDS, 123) = 2

\* five teams are returned, 123 one of them, after 123 was drawn once more
C31_Witness ==
  /\ fnCall.fn = "pickUniqueTeams"
  /\ fnCall.done
  /\ fnCall.arg = 5
  /\ Len(fnCall.ret) = 5
  /\ Occurrences(fnCall.ret, 123) = 1
  /\ 123 \in fnCall.again

\* --------------------------------------------------------------------- C32
\* the calls of a guest iteration, in order
GuestOrder == << "latest", "teamFeed", "gamesScreen" >>

\* C32: in either guest flow the calls of an iteration are latest, team
\* feed, games screen in that order, whatever the statuses answered, three
\* when the iteration is over; team feed and games are called for the same
\* team, team 5 when no item of the latest body holds an id. A games call
\* answered outside [200,300) adds 1 to exactly one of games_fail_4xx (400 to
\* 499), games_fail_5xx (500 to 599), games_fail_other (any other status);
\* one answered 2xx, and every other call, adds to none.
C32_GuestCallsAndFailureClasses ==
  /\ [](\A f \in GuestFlows :
          LET calls == guest.calls[f] IN
          /\ Len(calls) <= 3
          /\ \A i \in 1..Len(calls) : calls[i].ep = GuestOrder[i]
          /\ guest.at[f] = "latest" /\ calls # <<>> => Len(calls) = 3
          /\ guest.at[f] = "team" => Len(calls) = 1
          /\ guest.at[f] = "games" => Len(calls) = 2
          /\ Len(calls) >= 2 =>
               /\ calls[2].team \in {5, 7, 9}
               /\ ~guest.yielded[f] => calls[2].team = 5
          /\ Len(calls) = 3 => calls[3].team = calls[2].team)
  /\ [][\A f \in GuestFlows :
          guest'.calls[f] # guest.calls[f] =>
            LET status == guest'.answered[f]
                d4 == guest'.games_fail_4xx - guest.games_fail_4xx
                d5 == guest'.games_fail_5xx - guest.games_fail_5xx
                dOther == guest'.games_fail_other - guest.games_fail_other
            IN
            /\ guest'.issued = guest.issued + 1
            /\ IF guest.at[f] # "games" THEN << d4, d5, dOther >> = << 0, 0, 0 >>
               ELSE IF status >= 200 /\ status < 300
                 THEN << d4, d5, dOther >> = << 0, 0, 0 >>
               ELSE IF status >= 400 /\ status <= 499
                 THEN << d4, d5, dOther >> = << 1, 0, 0 >>
               ELSE IF status >= 500 /\ status <= 599
                 THEN << d4, d5, dOther >> = << 0, 1, 0 >>
               ELSE << d4, d5, dOther >> = << 0, 0, 1 >>]_vars

\* both flows have ended an iteration: the web flow's latest gave no team
\* (team 5) and its games call was answered 399, the mobile flow's 499
C32_Witness ==
  /\ guest.at["web"] = "latest"
  /\ Len(guest.calls["web"]) = 3
  /\ ~guest.yielded["web"]
  /\ guest.calls["web"][3] = [ep |-> "gamesScreen", team |-> 5]
  /\ guest.answered["web"] = 399
  /\ guest.at["mobile"] = "latest"
  /\ guest.answered["mobile"] = 499
  /\ guest.games_fail_other = 1
  /\ guest.games_fail_4xx = 1
  /\ guest.games_fail_5xx = 0

=============================================================================
